---- MODULE Spec2Model ----
(***************************************************************************)
(* Payment Gate of the x402 echo merchant: the middleware dispatcher, the  *)
(* paymentMiddleware request pipeline (requirements -> proof header ->     *)
(* verify -> settle -> refund sub-request -> final content) and the pure   *)
(* helpers it calls.                                                       *)
(*                                                                         *)
(* Representation.                                                         *)
(*  - JavaScript `undefined` (an absent header, an absent JSON field) is   *)
(*    the token Undefined; Truthy is JavaScript truthiness of an optional  *)
(*    string.  An optional object is a sequence of length 0 or 1.          *)
(*  - A pathname is the sequence of its segments: "/api/base/x" is         *)
(*    <<"api", "base", "x">>.                                              *)
(*  - A header value is the sequence of the tokens it contains;            *)
(*    String.prototype.includes is membership among them.                  *)
(*  - A USD price is its value counted in units of 10^-PriceScale dollars, *)
(*    so that rounding to atomic units is a real operation.                *)
(*  - One JavaScript task runs without interleaving between two awaits of  *)
(*    an external call: an action is the code from one await to the next.  *)
(*                                                                         *)
(* Variables.  req holds the gate's requests (specification Spec); client  *)
(* holds the last call made on the Facilitator Client on its own           *)
(* (specification ClientSpec); engine holds the Refund Engine: its         *)
(* process state, its refund() calls and the transfers it has issued       *)
(* (specification RefundSpec); endpoint holds the POST requests of the     *)
(* refund endpoint, each of which calls the engine (specification          *)
(* EndpointSpec); resolver holds the last call of the Price Resolver on     *)
(* its own (specification PriceSpec).                                      *)
(***************************************************************************)
EXTENDS Integers, Sequences, FiniteSets, TLC

VARIABLES req, client, engine, endpoint, resolver, jwt

vars == <<req, client, engine, endpoint, resolver, jwt>>

----------------------------------------------------------------------------
(* Values *)

Undefined == "undefined"

Truthy(v) == v \notin {Undefined, ""}

\* a || b on optional strings
OrElse(a, b) == IF Truthy(a) THEN a ELSE b

\* header?.includes(token)
Includes(header, token) == \E i \in 1..Len(header) : header[i] = token

\* JSON.stringify of an Error instance: it has no enumerable own property
SerializedError == "{}"

----------------------------------------------------------------------------
(* Bounds of the model *)

\* digits kept after the decimal point of a USD price
PriceScale == 7

\* largest number of payment kinds in one answer of supported()
MaxKinds == 2

----------------------------------------------------------------------------
(* Network registry and price resolver (lib/x402-helpers) *)

SupportedEVMNetworks ==
  {"base", "base-sepolia", "avalanche", "avalanche-fuji", "polygon",
   "polygon-amoy", "sei", "sei-testnet", "xlayer", "xlayer-testnet", "peaq",
   "iotex", "skale-base", "skale-base-sepolia"}

SupportedSVMNetworks == {"solana", "solana-devnet"}

\* an address: its text and whether it is in EIP-55 checksum form
Addr(text, checksummed) == [text |-> text, checksummed |-> checksummed]

\* viem getAddress: checksum-normalises a well-formed address
getAddress(a) == [a EXCEPT !.checksummed = TRUE]

UsdcDecimals == 6

USDC_ADDRESSES ==
  [n \in SupportedEVMNetworks \cup SupportedSVMNetworks |->
     [address |-> Addr("usdc@" \o n, n # "xlayer-testnet"),
      decimals |-> UsdcDecimals,
      name |-> IF n \in {"base", "avalanche", "polygon", "solana"}
               THEN "USD Coin"
               ELSE IF n \in {"skale-base", "skale-base-sepolia"}
                    THEN "Bridged USDC (SKALE Bridge)" ELSE "USDC",
      version |-> "2"]]

RECURSIVE Pow10(_)
Pow10(n) == IF n = 0 THEN 1 ELSE 10 * Pow10(n - 1)

\* Math.round(num / den) for num >= 0: to the nearest integer, halves up
RoundDiv(num, den) == (2 * num + den) \div (2 * den)

\* a price string "$d.dd..." : its value in units of 10^-PriceScale dollars
UsdPrice(units) == [kind |-> "usd", units |-> units]

Cent == Pow10(PriceScale - 2)

\* Number.prototype.toFixed(2) of a non-negative amount, as a price string
ToFixed2(units) == UsdPrice(RoundDiv(units, Cent) * Cent)

\* mutant: the fraction of an atomic unit is cut off
ToAtomicTruncating(units, decimals) ==
  IF decimals >= PriceScale
  THEN units * Pow10(decimals - PriceScale)
  ELSE units \div Pow10(PriceScale - decimals)

\* prices whose product with 10^6 is a half exactly in decimal and lies just
\* below it as a double: 0.0001245 * 10^6 is 124.49999999999999 and
\* 0.0002445 * 10^6 is 244.49999999999997, which Math.round takes down
ProductBelowHalf ==
  {1245 * Pow10(PriceScale - 7), 2445 * Pow10(PriceScale - 7)}

\* Math.round(usd * 10^decimals), the powers of ten reduced beforehand
ToAtomic(units, decimals) ==
  IF decimals >= PriceScale
  THEN units * Pow10(decimals - PriceScale)
  ELSE IF units \in ProductBelowHalf
  THEN units \div Pow10(PriceScale - decimals)
  ELSE RoundDiv(units, Pow10(PriceScale - decimals))

\* a price that is a string parseFloat reads no number from ("free", "$",
\* ""), a price that is the number NaN, and a token amount given outright
TextPrice(text) == [kind |-> "text", text |-> text]
NaNPrice == [kind |-> "NaN"]
TokenPrice(amount, asset) ==
  [kind |-> "token", amount |-> amount, asset |-> asset]

\* moneySchema.safeParse(price): a string is transformed by parseFloat (after
\* a leading $) and the outcome of the transform is not validated, so NaN is
\* a success; z.number() rejects the number NaN
moneySchema(price) ==
  CASE price.kind = "usd" ->
         [success |-> TRUE, notANumber |-> FALSE, units |-> price.units]
    [] price.kind = "text" ->
         [success |-> TRUE, notANumber |-> TRUE, units |-> 0]
    [] price.kind = "NaN" ->
         [success |-> FALSE, notANumber |-> TRUE, units |-> 0]

\* the result of the resolver: {error} or {amount, asset}; amount.toString()
\* of Math.round(NaN) is "NaN", told by notANumber
Resolution(error, amount, notANumber, asset, eip712) ==
  [error |-> error, amount |-> amount, notANumber |-> notANumber,
   asset |-> asset, eip712 |-> eip712]

\* processPriceToAtomicAmount; the gate reads the amount as the
\* requirement's maxAmountRequired
processPriceToAtomicAmount(price, network) ==
  LET parsed == moneySchema(price) IN
  IF price.kind = "token"
  THEN Resolution(Undefined, price.amount, FALSE, price.asset, Undefined)
  ELSE IF ~parsed.success
  THEN Resolution("Invalid price format", 0, FALSE, Addr(Undefined, FALSE),
                  Undefined)
  ELSE IF network \notin DOMAIN USDC_ADDRESSES
  THEN Resolution("No USDC address configured for network", 0, FALSE,
                  Addr(Undefined, FALSE), Undefined)
  ELSE LET usdcInfo == USDC_ADDRESSES[network] IN
       Resolution(Undefined,
                  IF parsed.notANumber THEN 0
                  ELSE ToAtomic(parsed.units, usdcInfo.decimals),
                  parsed.notANumber, usdcInfo.address, usdcInfo.name)

----------------------------------------------------------------------------
(* Route configuration (middleware.ts) and route matching *)

\* the networks middleware() dispatches on, in the order of its if-chain
DispatchNetworks ==
  <<"solana-devnet", "solana", "base", "base-sepolia", "avalanche",
    "avalanche-fuji", "polygon", "polygon-amoy", "xlayer", "xlayer-testnet",
    "peaq", "sei", "sei-testnet">>

\* "$0.01", the price of every configured route
DefaultPrice == UsdPrice(Cent)

NoErrorMessages ==
  [verificationFailed |-> Undefined, settlementFailed |-> Undefined]

\* solanaDevnetConfig ... xlayerTestnetConfig: price, network, description only
RouteConfigOf(network) ==
  [price |-> DefaultPrice, network |-> network,
   errorMessages |-> NoErrorMessages]

\* a route table entry: the key's verb prefix (none: <<>>), its path, its config
RouteEntry(verbs, path, config) ==
  [verbs |-> verbs, path |-> path, config |-> config]

AllVerbs == {"GET", "POST", "PUT", "PATCH", "DELETE", "HEAD", "OPTIONS"}

SeqRange(s) == {s[i] : i \in 1..Len(s)}

\* computeRoutePatterns: one compiled pattern per route, in declaration order.
\* The configured keys hold no "*", so the compiled regex ^path$ accepts
\* exactly the literal path.
computeRoutePatterns(routes) ==
  [i \in 1..Len(routes) |->
     [pattern |-> routes[i].path,
      verbs |-> IF routes[i].verbs = <<>> THEN AllVerbs
                ELSE SeqRange(routes[i].verbs),
      config |-> routes[i].config]]

PatternTest(pattern, pathname) == pattern = pathname

\* Array.prototype.find over the indices satisfying a condition
FirstOf(seq, idx) ==
  IF idx = {} THEN <<>>
  ELSE <<seq[CHOOSE i \in idx : \A j \in idx : i <= j]>>

\* mutant: the verb is not compared
findMatchingRouteAnyVerb(patterns, pathname, method) ==
  FirstOf(patterns,
          {i \in 1..Len(patterns) :
             PatternTest(patterns[i].pattern, pathname)})

findMatchingRoute(patterns, pathname, method) ==
  FirstOf(patterns,
          {i \in 1..Len(patterns) :
             /\ PatternTest(patterns[i].pattern, pathname)
             /\ method \in patterns[i].verbs})

\* mutant: the scheme is not compared
findMatchingPaymentRequirementsByNetwork(requirements, decodedPayment) ==
  LET network == IF decodedPayment.accepted # <<>>
                 THEN decodedPayment.accepted[1].network
                 ELSE decodedPayment.network IN
  FirstOf(requirements,
          {i \in 1..Len(requirements) : requirements[i].network = network})

\* the payload's accepted.(scheme, network), else its top-level scheme
\* (default "exact") and network
findMatchingPaymentRequirements(requirements, decodedPayment) ==
  IF decodedPayment.accepted # <<>>
  THEN LET accepted == decodedPayment.accepted[1] IN
       FirstOf(requirements,
               {i \in 1..Len(requirements) :
                  /\ requirements[i].scheme = accepted.scheme
                  /\ requirements[i].network = accepted.network})
  ELSE LET scheme == OrElse(decodedPayment.scheme, "exact")
           network == decodedPayment.network IN
       FirstOf(requirements,
               {i \in 1..Len(requirements) :
                  /\ requirements[i].scheme = scheme
                  /\ requirements[i].network = network})

\* pathname.startsWith("/api/<network>/"): the first branch of middleware()
\* that takes the request (none: <<>>)
DispatchedNetwork(pathname) ==
  LET idx == {i \in 1..Len(DispatchNetworks) :
                /\ Len(pathname) >= 3
                /\ pathname[1] = "api"
                /\ pathname[2] = DispatchNetworks[i]} IN
  FirstOf(DispatchNetworks, idx)

\* getRequestedAmount: the default price unless the JSON body holds a number
\* amount > 0; a body that is JSON null makes body.amount throw a TypeError,
\* which is rethrown
getRequestedAmount(body, defaultAmount) ==
  CASE body.kind = "none" -> [threw |-> FALSE, price |-> defaultAmount]
    [] body.kind = "syntaxError" -> [threw |-> FALSE, price |-> defaultAmount]
    [] body.kind = "null" -> [threw |-> TRUE, price |-> defaultAmount]
    [] OTHER ->
         IF body.amountIsNumber /\ body.amount > 0
         THEN [threw |-> FALSE, price |-> ToFixed2(body.amount)]
         ELSE [threw |-> FALSE, price |-> defaultAmount]

\* decodePayment and the assignment of x402Version that follows it
\* (middleware.ts 777-779): base64-decode, JSON.parse, overwrite the version
x402Version == 1

decodePayment(paymentHeader) ==
  CASE paymentHeader.kind = "notBase64" -> [threw |-> TRUE, value |-> <<>>]
    [] paymentHeader.kind = "notJson" -> [threw |-> TRUE, value |-> <<>>]
    [] paymentHeader.kind = "jsonNull" -> [threw |-> TRUE, value |-> <<>>]
    [] OTHER ->
         [threw |-> FALSE,
          value |-> <<[paymentHeader.payload EXCEPT
                         !.x402Version = x402Version]>>]

----------------------------------------------------------------------------
(* Facilitator Client (lib/facilitator.ts) *)

\* a JSON object answered by the facilitator; an absent field is Undefined.
\* isValid and success hold "true", "false", or a value that is no boolean.
NoJson ==
  [isValid |-> Undefined, success |-> Undefined, payer |-> Undefined,
   transaction |-> Undefined, network |-> Undefined,
   error |-> Undefined, invalidReason |-> Undefined,
   invalidMessage |-> Undefined, errorReason |-> Undefined,
   errorMessage |-> Undefined, message |-> Undefined]

\* what fetch delivers: a rejection, or a status and a body; json is <<>> for
\* a body res.json() cannot parse (safeJson returns null)
FetchRejects == [reachable |-> FALSE, status |-> 0, json |-> <<>>]

FetchAnswer(status, json) ==
  [reachable |-> TRUE, status |-> status, json |-> json]

\* mutant: message is looked at before the reasons
extractErrorMessageMessageFirst(data, fallback) ==
  IF data = <<>> THEN fallback
  ELSE IF Truthy(data[1].error) THEN data[1].error
  ELSE IF Truthy(data[1].message) THEN data[1].message
  ELSE IF Truthy(data[1].invalidReason)
  THEN IF Truthy(data[1].invalidMessage)
       THEN data[1].invalidReason \o ": " \o data[1].invalidMessage
       ELSE data[1].invalidReason
  ELSE IF Truthy(data[1].errorReason)
  THEN IF Truthy(data[1].errorMessage)
       THEN data[1].errorReason \o ": " \o data[1].errorMessage
       ELSE data[1].errorReason
  ELSE fallback

\* facilitator.ts 92-108
extractErrorMessage(data, fallback) ==
  IF data = <<>> THEN fallback
  ELSE IF Truthy(data[1].error) THEN data[1].error
  ELSE IF Truthy(data[1].invalidReason)
  THEN IF Truthy(data[1].invalidMessage)
       THEN data[1].invalidReason \o ": " \o data[1].invalidMessage
       ELSE data[1].invalidReason
  ELSE IF Truthy(data[1].errorReason)
  THEN IF Truthy(data[1].errorMessage)
       THEN data[1].errorReason \o ": " \o data[1].errorMessage
       ELSE data[1].errorReason
  ELSE IF Truthy(data[1].message) THEN data[1].message
  ELSE fallback

VerifyResponse(isValid, invalidReason, payer) ==
  [isValid |-> isValid, invalidReason |-> invalidReason, payer |-> payer]

\* useFacilitator().verify: the rejection of fetch is not caught
verify(answer) ==
  LET data == answer.json IN
  IF ~answer.reachable
  THEN [threw |-> TRUE, isError |-> TRUE,
        value |-> VerifyResponse(FALSE, Undefined, Undefined)]
  ELSE IF data # <<>> /\ data[1].isValid \in {"true", "false"}
  THEN [threw |-> FALSE, isError |-> FALSE,
        value |-> VerifyResponse(data[1].isValid = "true",
                                 data[1].invalidReason, data[1].payer)]
  ELSE [threw |-> FALSE, isError |-> FALSE,
        value |-> VerifyResponse(
                    FALSE,
                    extractErrorMessage(
                      data, "facilitator_verify_http_" \o ToString(answer.status)),
                    Undefined)]

SettleResponse(success, transaction, network, payer, errorReason) ==
  [success |-> success, transaction |-> transaction, network |-> network,
   payer |-> payer, errorReason |-> errorReason]

\* useFacilitator().settle
settle(answer) ==
  LET data == answer.json IN
  IF ~answer.reachable
  THEN [threw |-> TRUE, isError |-> TRUE,
        value |-> SettleResponse(FALSE, Undefined, Undefined, Undefined,
                                 Undefined)]
  ELSE IF data # <<>> /\ data[1].success \in {"true", "false"}
  THEN [threw |-> FALSE, isError |-> FALSE,
        value |-> SettleResponse(data[1].success = "true",
                                 data[1].transaction, data[1].network,
                                 data[1].payer, data[1].errorReason)]
  ELSE [threw |-> FALSE, isError |-> FALSE,
        value |-> SettleResponse(
                    FALSE, Undefined, Undefined, Undefined,
                    extractErrorMessage(
                      data, "facilitator_settle_http_" \o ToString(answer.status)))]

\* a payment kind of /supported
Kind(network, scheme, version, feePayer) ==
  [network |-> network, scheme |-> scheme, x402Version |-> version,
   feePayer |-> feePayer]

SelectSeq2(seq, version) ==
  SelectSeq(seq, LAMBDA kind : kind.x402Version = version)

\* useFacilitator().supported: answer.kinds is the body's kinds field, a flat
\* list (format "flat"), a map from version to list of which v2 is the entry
\* "2" (format "grouped"), or absent (format "none")
supported(answer) ==
  IF ~answer.reachable \/ answer.status \notin 200..299
  THEN [threw |-> TRUE, kinds |-> <<>>]
  ELSE IF answer.json = <<>> \/ answer.format = "none"
  THEN [threw |-> FALSE, kinds |-> <<>>]
  ELSE IF answer.format = "flat"
  THEN [threw |-> FALSE, kinds |-> SelectSeq2(answer.kinds, 2)]
  ELSE [threw |-> FALSE, kinds |-> answer.v2]

----------------------------------------------------------------------------
(* Responses *)

\* NextResponse.next(): the request goes on to the route handler, status 200
NextResponseNext ==
  [status |-> 200, kind |-> "next", contentType |-> Undefined,
   error |-> Undefined, errorReason |-> Undefined, accepts |-> <<>>,
   payer |-> Undefined, paymentResponse |-> <<>>,
   refundTransaction |-> Undefined, refundFailed |-> FALSE,
   content |-> <<>>]

\* new NextResponse(JSON.stringify({x402Version, error, accepts, ...}), 402)
Json402(error, accepts) ==
  [NextResponseNext EXCEPT !.status = 402, !.kind = "json",
     !.contentType = "application/json", !.error = error, !.accepts = accepts]

\* the paywall page: getSolanaPaywallHtml or getLocalPaywallHtml
Paywall402(network) ==
  [NextResponseNext EXCEPT !.status = 402,
     !.kind = IF network \in {"solana", "solana-devnet"}
              THEN "solanaPaywallHtml" ELSE "paywallHtml",
     !.contentType = "text/html"]

\* JSON.stringify of an object with a boolean success and optional string
\* fields: a field whose value is undefined is left out
JSONStringify(data) ==
  [k \in {k \in DOMAIN data : k = "success" \/ data[k] # Undefined}
     |-> data[k]]

\* JSON.parse(text).key: undefined when the text has no such key
JSONField(text, key) ==
  IF key \in DOMAIN text THEN text[key] ELSE Undefined

\* safeBase64Encode(text); atob gives the text back
safeBase64Encode(data) == [enc |-> "base64json", data |-> data]

atob(header) == header.data

\* the payment info the content handler shows: the fields of the header,
\* the route's network when the header names none
PaymentInfo(header, network) ==
  LET paymentInfo == atob(header) IN
  [transaction |-> JSONField(paymentInfo, "transaction"),
   network |-> OrElse(JSONField(paymentInfo, "network"), network),
   payer |-> JSONField(paymentInfo, "payer")]

\* the content handler's choice of page or JSON (paidContentHandler.test.ts)
HandlerIsBrowser(accept, userAgent) ==
  Includes(accept, "text/html") \/ Includes(userAgent, "Mozilla")

\* handlePaidContentRequest(request, network, refundTxHash)
handlePaidContentRequest(headers, network, refundTxHash) ==
  IF headers.xPaymentResponse = <<>>
  THEN [NextResponseNext EXCEPT !.status = 402, !.kind = "json",
          !.contentType = "application/json",
          !.error = "Payment info missing. Did you pay?"]
  ELSE IF headers.xPaymentResponse[1].enc # "base64json"
  THEN [NextResponseNext EXCEPT !.status = 500, !.kind = "json",
          !.contentType = "application/json",
          !.error = "Invalid payment info json."]
  ELSE [NextResponseNext EXCEPT
          !.kind = IF HandlerIsBrowser(headers.accept, headers.userAgent)
                   THEN "contentHtml" ELSE "contentJson",
          !.contentType = IF HandlerIsBrowser(headers.accept, headers.userAgent)
                          THEN "text/html; charset=utf-8"
                          ELSE "application/json",
          !.refundTransaction = refundTxHash,
          !.refundFailed = ~Truthy(refundTxHash),
          !.content = <<PaymentInfo(headers.xPaymentResponse[1], network)>>]

\* app/api/solana/paid-content/route.ts GET: the page when the request carries
\* an x-payment-response header, {ok: true} otherwise; always 200
SolanaGET(paymentResponseHeader) ==
  IF paymentResponseHeader # <<>>
  THEN [NextResponseNext EXCEPT
          !.kind = IF paymentResponseHeader[1].enc = "base64json"
                   THEN "contentHtml" ELSE "empty",
          !.contentType = IF paymentResponseHeader[1].enc = "base64json"
                          THEN "text/html; charset=utf-8" ELSE Undefined]
  ELSE [NextResponseNext EXCEPT !.kind = "ok",
          !.contentType = "application/json"]

\* app/api/base/paid-content/route.ts GET: the content handler's answer
BaseGET(headers) == handlePaidContentRequest(headers, "base", Undefined)

----------------------------------------------------------------------------
(* Per-request state *)

payToEVM == Addr("EVM_RECEIVE_PAYMENTS_ADDRESS", FALSE)
payToSVM == Addr("SVM_RECEIVE_PAYMENTS_ADDRESS", FALSE)

NoPayload ==
  [x402Version |-> 0, accepted |-> <<>>, scheme |-> Undefined,
   network |-> Undefined, payload |-> Undefined]

\* a proof header: absent, empty, or a string of one of four kinds
Header(kind, payload) == [kind |-> kind, payload |-> payload]

Body(kind, amountIsNumber, amount) ==
  [kind |-> kind, amountIsNumber |-> amountIsNumber, amount |-> amount]

NoRequest ==
  [method |-> "GET", pathname |-> <<>>, accept |-> <<>>, userAgent |-> <<>>,
   paymentHeader |-> Header("absent", NoPayload),
   body |-> Body("none", FALSE, 0),
   origin |-> Undefined, accessControlRequestHeaders |-> Undefined]

Idle ==
  [pc |-> "idle", entry |-> "middleware", request |-> NoRequest,
   network |-> Undefined, errorMessages |-> NoErrorMessages,
   price |-> DefaultPrice, payTo |-> payToEVM, maxAmountRequired |-> 0,
   asset |-> Addr(Undefined, FALSE),
   paymentRequirements |-> <<>>, decodedPayment |-> <<>>,
   selectedPaymentRequirements |-> <<>>,
   verification |-> <<>>, settlement |-> <<>>, payer |-> Undefined,
   routes |-> <<>>, routeMatched |-> FALSE, feePayer |-> Undefined,
   threw |-> Undefined, refund |-> <<>>,
   calls |-> <<>>, result |-> "pending", response |-> <<>>,
   exception |-> Undefined, delivery |-> <<>>, answers |-> <<>>,
   cors |-> <<>>]

Call(op, args) == [op |-> op, args |-> args]

\* middleware.ts 186-189: CORS_ALLOWED_ORIGINS, split, trimmed and filtered
allowedCorsOrigins == <<"https://app.example", "https://shop.example">>

\* mutant: whatever origin the request names is reflected
buildCorsHeadersReflectingAny(request) ==
  [allowOrigin |-> IF Truthy(request.origin) THEN request.origin
                   ELSE Undefined,
   vary |-> IF Truthy(request.origin) THEN "Origin" ELSE Undefined,
   allowCredentials |-> "true",
   allowHeaders |->
     OrElse(request.accessControlRequestHeaders,
            "Content-Type, Authorization, X-PAYMENT, X-PAYMENT-RESPONSE"),
   allowMethods |-> "GET,POST,PUT,PATCH,DELETE,OPTIONS",
   maxAge |-> "600",
   exposeHeaders |-> "X-PAYMENT-RESPONSE"]

\* middleware.ts 191-223: the CORS headers of a request; a header that is
\* not set is Undefined
buildCorsHeaders(request) ==
  LET reflected == /\ Truthy(request.origin)
                   /\ Includes(allowedCorsOrigins, request.origin)
  IN
  [allowOrigin |-> IF reflected THEN request.origin ELSE Undefined,
   vary |-> IF reflected THEN "Origin" ELSE Undefined,
   allowCredentials |-> IF reflected THEN "true" ELSE Undefined,
   allowHeaders |->
     OrElse(request.accessControlRequestHeaders,
            "Content-Type, Authorization, X-PAYMENT, X-PAYMENT-RESPONSE"),
   allowMethods |-> "GET,POST,PUT,PATCH,DELETE,OPTIONS",
   maxAge |-> "600",
   exposeHeaders |-> "X-PAYMENT-RESPONSE"]

\* middleware.ts 225-231: the CORS headers are set on the response that
\* middleware() returns; they are kept beside the response
withCors(s) == [s EXCEPT !.cors = <<buildCorsHeaders(s.request)>>]

\* return resp; a response of middleware() goes through withCors, one of a
\* paymentMiddleware instance used on its own does not
Respond(s, resp) ==
  LET t == [s EXCEPT !.pc = "done", !.result = "response",
                     !.response = <<resp>>]
  IN IF s.entry = "middleware" THEN withCors(t) ELSE t

\* an exception leaves the handler
Throw(s, message) ==
  [s EXCEPT !.pc = "done", !.result = "exception", !.exception = message]

\* await op(args): the call is issued and the task suspends
Await(s, op, args, pc) ==
  [s EXCEPT !.pc = pc, !.calls = Append(@, Call(op, args))]

----------------------------------------------------------------------------
(* paymentMiddleware: the handler, one operator per stretch between awaits *)

\* middleware.ts 625-646 (EVM) and 670-692 (SVM): the one requirement built
EvmRequirement(s) ==
  [scheme |-> "exact", network |-> s.network,
   maxAmountRequired |-> s.maxAmountRequired,
   payTo |-> getAddress(s.payTo), maxTimeoutSeconds |-> 300,
   asset |-> getAddress(s.asset), mimeType |-> "application/json",
   method |-> s.request.method, feePayer |-> Undefined]

SvmRequirement(s, feePayer) ==
  [scheme |-> "exact", network |-> s.network,
   maxAmountRequired |-> s.maxAmountRequired,
   payTo |-> s.payTo, maxTimeoutSeconds |-> 60,
   asset |-> s.asset, mimeType |-> "",
   method |-> s.request.method, feePayer |-> feePayer]

\* middleware.ts 700: !paymentHeader
ProofMissing(paymentHeader) == paymentHeader.kind \in {"absent", "empty"}

\* mutant: either header is enough
IsBrowserEitherHeader(accept, userAgent) ==
  Includes(accept, "text/html") \/ Includes(userAgent, "Mozilla")

\* middleware.ts 701-704: the client that is shown the paywall page
IsBrowser(accept, userAgent) ==
  Includes(accept, "text/html") /\ Includes(userAgent, "Mozilla")

\* mutant: the verdict is not looked at
VerificationFailedNever(verification) == FALSE

\* middleware.ts 820: !verification.isValid
VerificationFailed(verification) == ~verification.isValid

\* mutant: the outcome is not looked at
SettlementSucceededAlways(settlement) == TRUE

\* middleware.ts 853: settlement.success
SettlementSucceeded(settlement) == settlement.success

\* mutant: the verification's payer comes first
PayerOfVerificationFirst(settlement, verification) ==
  OrElse(verification.payer, OrElse(settlement.payer, ""))

\* mutant: the payer is kept in a variable of the module, written by the
\* first request that settles with one and read by every request
PayerOfSharedVariable(settlement, verification) ==
  LET written == {r \in DOMAIN req : Truthy(req[r].payer)} IN
  IF written # {}
  THEN req[CHOOSE r \in written : TRUE].payer
  ELSE OrElse(settlement.payer, OrElse(verification.payer, ""))

\* middleware.ts 854: settlement.payer || verification.payer || ""
PayerOf(settlement, verification) ==
  OrElse(settlement.payer, OrElse(verification.payer, ""))

\* mutant: the refund step is taken after every settlement
PayerKnownWheneverSettled(payer) == TRUE

\* middleware.ts 874: the refund step is skipped without a payer
PayerKnown(payer) == Truthy(payer)

\* mutant: a decode failure is answered 500
DecodeFailure500(s) ==
  [Json402(SerializedError, s.paymentRequirements) EXCEPT !.status = 500]

\* middleware.ts 780-789: the answer to a proof header that does not decode
DecodeFailure(s) == Json402(SerializedError, s.paymentRequirements)

\* middleware.ts 958-971: the catch block around settle and what follows it
SettlementCatch(s, isError) ==
  Json402(OrElse(s.errorMessages.settlementFailed,
                 IF isError THEN SerializedError ELSE "Settlement failed"),
          s.paymentRequirements)

\* middleware.ts 697-810: the proof header is checked, decoded and matched;
\* the stretch ends in a 402 or in the await of verify
CheckProof(s) ==
  LET paymentHeader == s.request.paymentHeader
      decoded == decodePayment(paymentHeader)
      selected == findMatchingPaymentRequirements(s.paymentRequirements,
                                                  decoded.value[1])
  IN
  IF ProofMissing(paymentHeader)
  THEN IF IsBrowser(s.request.accept, s.request.userAgent)
       THEN Respond(s, Paywall402(s.network))
       ELSE Respond(s, Json402("X-PAYMENT header is required",
                               s.paymentRequirements))
  ELSE IF decoded.threw
  THEN Respond(s, DecodeFailure(s))
  ELSE IF selected = <<>>
  THEN Respond([s EXCEPT !.decodedPayment = decoded.value],
               Json402("Unable to find matching payment requirements",
                       s.paymentRequirements))
  ELSE Await([s EXCEPT !.decodedPayment = decoded.value,
                       !.selectedPaymentRequirements = selected],
             "verify", <<decoded.value[1], selected[1]>>, "awaitVerify")

\* middleware.ts 588-695: route, price, requirements
PaymentMiddleware(s0, payTo, routes) ==
  LET pathname == s0.request.pathname
      method == s0.request.method
      matchingRoute ==
        findMatchingRoute(computeRoutePatterns(routes), pathname, method)
      config == matchingRoute[1].config
      atomicAmountForAsset ==
        processPriceToAtomicAmount(config.price, config.network)
      s == [s0 EXCEPT !.routes = routes, !.routeMatched = TRUE,
                      !.network = config.network,
                      !.errorMessages = config.errorMessages,
                      !.price = config.price, !.payTo = payTo,
                      !.maxAmountRequired = atomicAmountForAsset.amount,
                      !.asset = atomicAmountForAsset.asset]
  IN
  IF matchingRoute = <<>>
  THEN Respond([s0 EXCEPT !.routes = routes], NextResponseNext)
  ELSE IF atomicAmountForAsset.error # Undefined
  THEN Respond(s, [NextResponseNext EXCEPT !.status = 500, !.kind = "text",
                      !.error = atomicAmountForAsset.error])
  ELSE IF config.network \in SupportedEVMNetworks
  THEN CheckProof([s EXCEPT !.paymentRequirements = <<EvmRequirement(s)>>])
  ELSE IF config.network \in SupportedSVMNetworks
  THEN Await(s, "supported", <<>>, "awaitSupported")
  ELSE Throw(s, "Unsupported network")

\* mutant: the kind's scheme is not compared
FeePayerOfAnyScheme(kinds, network) ==
  LET first == FirstOf(kinds, {i \in 1..Len(kinds) :
                                 kinds[i].network = network})
  IN IF first = <<>> THEN Undefined ELSE first[1].feePayer

\* middleware.ts 655-667: the fee payer of the first kind with the route's
\* network and scheme "exact"
FeePayerOf(kinds, network) ==
  LET first == FirstOf(kinds, {i \in 1..Len(kinds) :
                                 /\ kinds[i].network = network
                                 /\ kinds[i].scheme = "exact"})
  IN IF first = <<>> THEN Undefined ELSE first[1].feePayer

\* middleware.ts 651-695, from the return of supported()
AfterSupported(s, outcome) ==
  LET feePayer == FeePayerOf(outcome.kinds, s.network) IN
  IF outcome.threw
  THEN Throw([s EXCEPT !.threw = "supported"], "supported failed")
  ELSE IF ~Truthy(feePayer)
  THEN Throw(s, "The facilitator did not provide a fee payer")
  ELSE CheckProof([s EXCEPT
                     !.feePayer = feePayer,
                     !.paymentRequirements = <<SvmRequirement(s, feePayer)>>])

\* mutant: settle is given the requirement the payload says it accepted,
\* where it names one
AfterVerifySettlingTheAccepted(s, outcome) ==
  LET verification == outcome.value
      response == NextResponseNext
      accepted == s.decodedPayment[1].accepted
  IN
  IF outcome.threw
  THEN Throw([s EXCEPT !.threw = "verify"], "verify failed")
  ELSE IF VerificationFailed(verification)
  THEN Respond([s EXCEPT !.verification = <<verification>>],
               [Json402(OrElse(s.errorMessages.verificationFailed,
                               verification.invalidReason),
                        s.paymentRequirements)
                  EXCEPT !.payer = verification.payer])
  ELSE IF response.status >= 400
  THEN Respond([s EXCEPT !.verification = <<verification>>], response)
  ELSE Await([s EXCEPT !.verification = <<verification>>],
             "settle",
             <<s.decodedPayment[1],
               IF accepted # <<>> THEN accepted[1]
               ELSE s.selectedPaymentRequirements[1]>>,
             "awaitSettle")

\* middleware.ts 807-846, from the return of verify
AfterVerify(s, outcome) ==
  LET verification == outcome.value
      response == NextResponseNext
  IN
  IF outcome.threw
  THEN Throw([s EXCEPT !.threw = "verify"], "verify failed")
  ELSE IF VerificationFailed(verification)
  THEN Respond([s EXCEPT !.verification = <<verification>>],
               [Json402(OrElse(s.errorMessages.verificationFailed,
                               verification.invalidReason),
                        s.paymentRequirements)
                  EXCEPT !.payer = verification.payer])
  ELSE IF response.status >= 400
  THEN Respond([s EXCEPT !.verification = <<verification>>], response)
  ELSE Await([s EXCEPT !.verification = <<verification>>],
             "settle",
             <<s.decodedPayment[1], s.selectedPaymentRequirements[1]>>,
             "awaitSettle")

\* mutant: the legacy fields only
PaymentResponseHeaderLegacy(settlement, payer) ==
  safeBase64Encode(JSONStringify([success |-> TRUE,
                                  transaction |-> settlement.transaction,
                                  network |-> settlement.network,
                                  payer |-> payer]))

\* middleware.ts 859-872: the payment-response header
PaymentResponseHeader(settlement, payer) ==
  safeBase64Encode(JSONStringify([success |-> TRUE,
                                  transaction |-> settlement.transaction,
                                  transactionId |-> settlement.transaction,
                                  signature |-> settlement.transaction,
                                  network |-> settlement.network,
                                  payer |-> payer]))

\* middleware.ts 843-890 and 943-971, from the return of settle
AfterSettle(s, outcome) ==
  LET settlement == outcome.value
      verification == s.verification[1]
      payer == PayerOf(settlement, verification)
      paymentResponseHeader == PaymentResponseHeader(settlement, payer)
      response == [NextResponseNext EXCEPT
                     !.paymentResponse = <<paymentResponseHeader>>]
      t == [s EXCEPT !.settlement = <<settlement>>, !.payer = payer]
  IN
  IF outcome.threw
  THEN Respond([s EXCEPT !.threw = "settle"],
               SettlementCatch(s, outcome.isError))
  ELSE IF ~SettlementSucceeded(settlement)
  THEN Respond([s EXCEPT !.settlement = <<settlement>>],
               [Json402("Settlement failed", s.paymentRequirements)
                  EXCEPT !.errorReason = settlement.errorReason])
  ELSE IF ~PayerKnown(payer)
  THEN Respond(t, response)
  ELSE Await(t, "refund",
             <<[recipient |-> payer,
                selectedPaymentRequirements |->
                  s.selectedPaymentRequirements[1]]>>,
             "awaitRefund")

\* mutant: a refund answer that is not ok is noted and the gate waits for
\* another answer
AfterRefundAwaitingSuccess(s, outcome) ==
  LET paymentResponseHeader ==
        PaymentResponseHeader(s.settlement[1], s.payer)
      forwardHeaders ==
        [accept |-> s.request.accept, userAgent |-> s.request.userAgent,
         xPaymentResponse |-> <<paymentResponseHeader>>,
         xRefundFailed |-> FALSE]
      handlerResponse ==
        handlePaidContentRequest(forwardHeaders, s.network,
                                 outcome.refundTxHash)
  IN
  IF outcome.threw
  THEN Respond([s EXCEPT !.threw = "refund", !.refund = <<outcome>>],
               SettlementCatch(s, outcome.isError))
  ELSE IF ~outcome.ok
  THEN [s EXCEPT !.refund = <<outcome>>]
  ELSE Respond([s EXCEPT !.refund = <<outcome>>,
                         !.delivery = <<handlerResponse>>],
               [handlerResponse EXCEPT
                  !.paymentResponse = <<paymentResponseHeader>>])

\* mutant: the body of the refund answer is read whatever its status
AfterRefundReadsEveryBody(s, outcome) ==
  LET paymentResponseHeader ==
        PaymentResponseHeader(s.settlement[1], s.payer)
      forwardHeaders ==
        [accept |-> s.request.accept, userAgent |-> s.request.userAgent,
         xPaymentResponse |-> <<paymentResponseHeader>>,
         xRefundFailed |-> ~outcome.ok]
      handlerResponse ==
        handlePaidContentRequest(forwardHeaders, s.network,
                                 outcome.refundTxHash)
  IN
  IF outcome.threw
  THEN Respond([s EXCEPT !.threw = "refund", !.refund = <<outcome>>],
               SettlementCatch(s, outcome.isError))
  ELSE Respond([s EXCEPT !.refund = <<outcome>>,
                         !.delivery = <<handlerResponse>>],
               [handlerResponse EXCEPT
                  !.paymentResponse = <<paymentResponseHeader>>])

\* middleware.ts 891-942 and 958-971, from the return of the refund
\* sub-request; a rejected fetch is caught by the settlement catch block
AfterRefund(s, outcome) ==
  LET paymentResponseHeader ==
        PaymentResponseHeader(s.settlement[1], s.payer)
      forwardHeaders ==
        [accept |-> s.request.accept, userAgent |-> s.request.userAgent,
         xPaymentResponse |-> <<paymentResponseHeader>>,
         xRefundFailed |-> ~outcome.ok]
      handlerResponse ==
        handlePaidContentRequest(forwardHeaders, s.network,
                                 IF outcome.ok THEN outcome.refundTxHash
                                 ELSE Undefined)
  IN
  IF outcome.threw
  THEN Respond([s EXCEPT !.threw = "refund", !.refund = <<outcome>>],
               SettlementCatch(s, outcome.isError))
  ELSE Respond([s EXCEPT !.refund = <<outcome>>,
                         !.delivery = <<handlerResponse>>],
               [handlerResponse EXCEPT
                  !.paymentResponse = <<paymentResponseHeader>>])

----------------------------------------------------------------------------
(* The requests and the answers of the outside world the model draws from *)

RequestIds == {1}

Methods == {"GET", "DELETE", "OPTIONS", "TRACE"}

Pathnames ==
  {<<"api", "base", "paid-content">>, <<"api", "solana", "paid-content">>,
   <<"api", "base", "other">>, <<"api", "iotex", "paid-content">>,
   <<"api", "base">>, <<"health">>}

AcceptHeaders == {<<>>, <<"application/json">>, <<"text/html", "*/*">>}

UserAgents == {<<>>, <<"curl">>, <<"Mozilla", "Chrome">>}

PayloadNetworks == {"base", "solana"}

PayloadSchemes == {"exact", "upto"}

Payload(accepted, scheme, network) ==
  [x402Version |-> 2, accepted |-> accepted, scheme |-> scheme,
   network |-> network, payload |-> "signature"]

Accepted(scheme, network) == [scheme |-> scheme, network |-> network]

\* with accepted: the top-level fields absent, or naming a scheme "exact" and
\* a network; without: every top-level scheme and network
Payloads ==
  {Payload(<<Accepted(a, n)>>, "exact", "base") :
     a \in PayloadSchemes, n \in PayloadNetworks}
  \cup {Payload(<<Accepted(a, n)>>, Undefined, Undefined) :
          a \in PayloadSchemes, n \in PayloadNetworks}
  \cup {Payload(<<>>, a, n) :
          a \in PayloadSchemes \cup {Undefined, ""},
          n \in PayloadNetworks \cup {Undefined}}

PaymentHeaders ==
  {Header(k, NoPayload) :
     k \in {"absent", "empty", "notBase64", "notJson", "jsonNull"}}
  \cup {Header("json", p) : p \in Payloads}

\* $0.004, $0.006 and $1.50 in units of 10^-PriceScale dollars
BodyAmounts ==
  {0, 4 * Pow10(PriceScale - 3), 6 * Pow10(PriceScale - 3), 150 * Cent}

Bodies ==
  {Body(k, FALSE, 0) : k \in {"none", "syntaxError", "null"}}
  \cup {Body("json", FALSE, 0)}
  \cup {Body("json", TRUE, a) : a \in BodyAmounts}

\* the request headers of CORS are drawn in CorsRequests
Requests ==
  [method : Methods, pathname : Pathnames, accept : AcceptHeaders,
   userAgent : UserAgents, paymentHeader : PaymentHeaders, body : Bodies,
   origin : {Undefined}, accessControlRequestHeaders : {Undefined}]

\* a paymentMiddleware instance other than those of middleware(): one EVM
\* route limited to two verbs, with its own error messages
CustomErrorMessages ==
  [verificationFailed |-> "custom verification message",
   settlementFailed |-> "custom settlement message"]

CustomRoutes ==
  <<RouteEntry(<<"GET", "POST">>, <<"api", "base", "paid-content">>,
               [RouteConfigOf("base") EXCEPT
                  !.errorMessages = CustomErrorMessages])>>

Entries == {"middleware", "factory"}

\* supported(): the kinds the facilitator may advertise
Kinds ==
  {Kind("solana", "exact", 2, "FeePayer"),
   Kind("solana", "exact", 2, Undefined),
   Kind("solana", "exact", 1, "FeePayerV1"),
   Kind("solana", "upto", 2, "FeePayerUpto"),
   Kind("solana-devnet", "exact", 2, "FeePayerDevnet")}

RECURSIVE SeqsUpTo(_, _)
SeqsUpTo(S, n) ==
  IF n = 0 THEN {<<>>}
  ELSE LET shorter == SeqsUpTo(S, n - 1) IN
       shorter \cup {Append(q, x) : q \in shorter, x \in S}

SupportedAnswer(reachable, status, json, format, kinds, v2) ==
  [reachable |-> reachable, status |-> status, json |-> json,
   format |-> format, kinds |-> kinds, v2 |-> v2]

SupportedAnswers ==
  {SupportedAnswer(FALSE, 0, <<>>, "none", <<>>, <<>>),
   SupportedAnswer(TRUE, 500, <<>>, "none", <<>>, <<>>),
   SupportedAnswer(TRUE, 200, <<>>, "none", <<>>, <<>>),
   SupportedAnswer(TRUE, 200, <<NoJson>>, "none", <<>>, <<>>)}
  \cup {SupportedAnswer(TRUE, 200, <<NoJson>>, "flat", k, <<>>) :
          k \in SeqsUpTo(Kinds, MaxKinds)}
  \cup {SupportedAnswer(TRUE, 200, <<NoJson>>, "grouped", <<>>, k) :
          k \in SeqsUpTo({k \in Kinds : k.x402Version = 2}, 1)}

SupportedOutcomes == {supported(a) : a \in SupportedAnswers}

\* the bodies the facilitator may answer verify with
VerifyBodies ==
  {<<>>, <<NoJson>>,
   <<[NoJson EXCEPT !.isValid = "true"]>>,
   <<[NoJson EXCEPT !.isValid = "true", !.payer = "0xPayerV"]>>,
   <<[NoJson EXCEPT !.isValid = "false", !.invalidReason = "invalid_signature",
                    !.payer = "0xPayerV"]>>,
   <<[NoJson EXCEPT !.isValid = "false"]>>,
   <<[NoJson EXCEPT !.isValid = "yes", !.error = "rate limited"]>>}

VerifyAnswers ==
  {FetchRejects} \cup {FetchAnswer(200, b) : b \in VerifyBodies}
  \cup {FetchAnswer(500, b) : b \in {<<>>, <<[NoJson EXCEPT !.message = "down"]>>}}

VerifyOutcomes == {verify(a) : a \in VerifyAnswers}

\* the bodies the facilitator may answer settle with
SettleBodies ==
  {<<>>,
   <<[NoJson EXCEPT !.success = "false", !.errorReason = "insufficient_funds"]>>,
   <<[NoJson EXCEPT !.success = "false"]>>}
  \cup {<<[NoJson EXCEPT !.success = "true", !.transaction = "0xSettleTx",
                         !.network = n, !.payer = p]>> :
          n \in {Undefined, "base"}, p \in {Undefined, "", "0xPayerS"}}

SettleAnswers ==
  {FetchRejects} \cup {FetchAnswer(200, b) : b \in SettleBodies}
  \cup {FetchAnswer(500, <<[NoJson EXCEPT !.error = "settle unavailable"]>>)}

\* settle as the gate sees it: the client's result, or a value that is no
\* Error thrown on the way (createAuthHeaders is caller code)
SettleOutcomes ==
  {settle(a) : a \in SettleAnswers}
  \cup {[threw |-> TRUE, isError |-> FALSE, value |-> settle(FetchRejects).value]}

RefundOutcome(threw, isError, ok, refundTxHash) ==
  [threw |-> threw, isError |-> isError, ok |-> ok,
   refundTxHash |-> refundTxHash]

\* the fetch of the refund endpoint rejects, answers 200 with or without a
\* refundTxHash, or answers 400 or 500 (whose body the gate does not read)
RefundOutcomes ==
  {RefundOutcome(TRUE, TRUE, FALSE, Undefined),
   RefundOutcome(FALSE, FALSE, TRUE, "0xRefundTx"),
   RefundOutcome(FALSE, FALSE, TRUE, Undefined),
   RefundOutcome(FALSE, FALSE, FALSE, Undefined),
   RefundOutcome(FALSE, FALSE, FALSE, "0xUnreadTx")}

----------------------------------------------------------------------------
(* Actions *)

\* mutant: the preflight is answered only where no route is dispatched
MiddlewareDispatchingFirst(s) ==
  LET request == s.request
      dispatched == DispatchedNetwork(request.pathname)
      network == dispatched[1]
      requested == getRequestedAmount(request.body, RouteConfigOf(network).price)
      dynamicConfig == [RouteConfigOf(network) EXCEPT !.price = requested.price]
  IN
  IF dispatched = <<>>
  THEN IF request.method = "OPTIONS"
       THEN Respond(s, [NextResponseNext EXCEPT !.status = 204,
                                                !.kind = "preflight"])
       ELSE Respond(s, NextResponseNext)
  ELSE IF requested.threw
  THEN Throw(s, "TypeError")
  ELSE PaymentMiddleware(
         s,
         IF network \in SupportedSVMNetworks THEN payToSVM ELSE payToEVM,
         <<RouteEntry(<<>>, <<"api", network, "paid-content">>, dynamicConfig)>>)

\* middleware.ts 293-518: middleware(request), to the first await of an
\* external call
Middleware(s) ==
  LET request == s.request
      dispatched == DispatchedNetwork(request.pathname)
      network == dispatched[1]
      requested == getRequestedAmount(request.body, RouteConfigOf(network).price)
      dynamicConfig == [RouteConfigOf(network) EXCEPT !.price = requested.price]
  IN
  IF request.method = "OPTIONS"
  THEN Respond(s, [NextResponseNext EXCEPT !.status = 204, !.kind = "preflight"])
  ELSE IF dispatched = <<>>
  THEN Respond(s, NextResponseNext)
  ELSE IF requested.threw
  THEN Throw(s, "TypeError")
  ELSE PaymentMiddleware(
         s,
         IF network \in SupportedSVMNetworks THEN payToSVM ELSE payToEVM,
         <<RouteEntry(<<>>, <<"api", network, "paid-content">>, dynamicConfig)>>)

\* a request arrives, at middleware() or at a paymentMiddleware instance
Receive(r) ==
  /\ req[r].pc = "idle"
  /\ \E request \in Requests, entry \in Entries :
       LET s == [Idle EXCEPT !.request = request, !.entry = entry] IN
       req' = [req EXCEPT ![r] =
                 IF entry = "middleware" THEN Middleware(s)
                 ELSE PaymentMiddleware(s, payToEVM, CustomRoutes)]
  /\ UNCHANGED <<client, engine, endpoint, resolver, jwt>>

SupportedReturns(r) ==
  /\ req[r].pc = "awaitSupported"
  /\ \E outcome \in SupportedOutcomes :
       req' = [req EXCEPT ![r] = AfterSupported(req[r], outcome)]
  /\ UNCHANGED <<client, engine, endpoint, resolver, jwt>>

VerifyReturns(r) ==
  /\ req[r].pc = "awaitVerify"
  /\ \E outcome \in VerifyOutcomes :
       req' = [req EXCEPT ![r] = AfterVerify(req[r], outcome)]
  /\ UNCHANGED <<client, engine, endpoint, resolver, jwt>>

SettleReturns(r) ==
  /\ req[r].pc = "awaitSettle"
  /\ \E outcome \in SettleOutcomes :
       req' = [req EXCEPT ![r] = AfterSettle(req[r], outcome)]
  /\ UNCHANGED <<client, engine, endpoint, resolver, jwt>>

RefundReturns(r) ==
  /\ req[r].pc = "awaitRefund"
  /\ \E outcome \in RefundOutcomes :
       req' = [req EXCEPT ![r] = AfterRefund(req[r], outcome)]
  /\ UNCHANGED <<client, engine, endpoint, resolver, jwt>>

\* the framework runs the route's own handler after the gate has returned
\* NextResponse.next() for a protected route; the request it is given carries
\* the client's headers, not the headers the gate set on its response
RouteHandlerRuns(r) ==
  LET s == req[r]
      headers == [accept |-> s.request.accept,
                  userAgent |-> s.request.userAgent,
                  xPaymentResponse |-> <<>>, xRefundFailed |-> FALSE]
  IN
  /\ s.pc = "done" /\ s.result = "response" /\ s.routeMatched
  /\ s.response[1].kind = "next"
  /\ s.delivery = <<>>
  /\ req' = [req EXCEPT ![r].delivery =
               <<IF s.network \in SupportedSVMNetworks
                 THEN SolanaGET(headers.xPaymentResponse)
                 ELSE BaseGET(headers)>>]
  /\ UNCHANGED <<client, engine, endpoint, resolver, jwt>>

NoCall == [op |-> "none"]

\* the Refund Engine before any refund() call
NoEngine == [started |-> FALSE]

\* the refund endpoint before any POST
NoPosts == <<>>

\* the Price Resolver before any call
NotResolved == [called |-> FALSE]

\* the JWT cache of the module before any call (jwtCache = null), the clock
\* at 0
NoJwt == [started |-> FALSE]

Init ==
  /\ req = [r \in RequestIds |-> Idle]
  /\ client = NoCall
  /\ engine = NoEngine
  /\ endpoint = NoPosts
  /\ resolver = NotResolved
  /\ jwt = NoJwt

Next ==
  \E r \in RequestIds :
    \/ Receive(r)
    \/ SupportedReturns(r)
    \/ VerifyReturns(r)
    \/ SettleReturns(r)
    \/ RefundReturns(r)
    \/ RouteHandlerRuns(r)

Spec == Init /\ [][Next]_vars

----------------------------------------------------------------------------
(* Properties of the payment gate *)

\* bound: the longest requirement list findMatchingPaymentRequirements is
\* evaluated on
MaxRequirements == 2

Served(s) == s.pc = "done"

Answered(s, status) ==
  s.result = "response" /\ s.response[1].status = status

CallsOf(s, op) == SelectSeq(s.calls, LAMBDA c : c.op = op)

CallCount(s, op) == Len(CallsOf(s, op))

NoPaymentCalls(s) ==
  \A op \in {"verify", "settle", "refund"} : CallCount(s, op) = 0

SettledOk(s) == s.settlement # <<>> /\ s.settlement[1].success

\* C1: a request whose settlement succeeded is answered 200, whatever
\* happens afterwards (refund failing or throwing included).
C1_SettledRequestIsAnswered200 ==
  \A r \in RequestIds :
    Served(req[r]) /\ SettledOk(req[r]) => Answered(req[r], 200)

\* C2: no exception raised while verifying or settling leaves the gate or
\* becomes a 5xx; every such failure is answered 402.
C2_VerifySettleExceptionIsAnswered402 ==
  \A r \in RequestIds :
    Served(req[r]) /\ req[r].threw \in {"verify", "settle"}
      => Answered(req[r], 402)

\* C3: verify, settle and refund are each called at most once per request;
\* settle only after verify reported a valid payment; the refund only after
\* settle reported success.
C3_CallsAreOrderedAndSingle ==
  \A r \in RequestIds :
    LET s == req[r]
        At(op) == CHOOSE i \in 1..Len(s.calls) : s.calls[i].op = op
    IN
    /\ \A op \in {"verify", "settle", "refund"} : CallCount(s, op) <= 1
    /\ CallCount(s, "settle") = 1
         => /\ CallCount(s, "verify") = 1
            /\ At("verify") < At("settle")
            /\ s.verification # <<>>
            /\ s.verification[1].isValid
    /\ CallCount(s, "refund") = 1
         => /\ CallCount(s, "settle") = 1
            /\ At("settle") < At("refund")
            /\ SettledOk(s)

C3_Witness ==
  \E r \in RequestIds :
    /\ Served(req[r])
    /\ \A op \in {"verify", "settle", "refund"} : CallCount(req[r], op) = 1

\* the payer the spec names: settlement.payer, else verification.payer
KnownPayer(s) ==
  IF Truthy(s.settlement[1].payer) THEN s.settlement[1].payer
  ELSE s.verification[1].payer

RefundBody(s) ==
  [recipient |-> KnownPayer(s),
   selectedPaymentRequirements |-> CallsOf(s, "settle")[1].args[2]]

\* C4 as stated: every successful settlement yields exactly one refund attempt
\* whose body carries the payer and the settled requirements.
C4_EverySettlementIsRefunded ==
  \A r \in RequestIds :
    LET s == req[r] IN
    SettledOk(s)
      => /\ CallCount(s, "refund") = 1
         /\ CallsOf(s, "refund")[1].args = <<RefundBody(s)>>

\* C4: a successful settlement with a known payer (settlement.payer, else
\* verification.payer, non-empty) yields exactly one refund attempt whose body
\* carries that payer and the settled requirements; with no known payer no
\* refund is attempted.
C4_SettlementWithPayerIsRefundedOnce ==
  \A r \in RequestIds :
    LET s == req[r] IN
    SettledOk(s)
      => IF Truthy(KnownPayer(s))
         THEN /\ CallCount(s, "refund") = 1
              /\ CallsOf(s, "refund")[1].args = <<RefundBody(s)>>
         ELSE CallCount(s, "refund") = 0

C4_Witness ==
  \E r \in RequestIds :
    LET s == req[r] IN
    /\ Served(s) /\ SettledOk(s)
    /\ ~Truthy(s.settlement[1].payer)
    /\ Truthy(s.verification[1].payer)
    /\ CallCount(s, "refund") = 1

\* the requirement set can be built: always on an EVM route, on a Solana
\* route once supported() has yielded a fee payer
RequirementsBuilt(s) ==
  s.network \in SupportedEVMNetworks \/ Truthy(s.feePayer)

Malformed(s) == s.request.paymentHeader.kind \in {"notBase64", "notJson"}

\* C5 as stated: a proof header that is not base64, or not JSON, is answered
\* 402, never 500, and nothing is verified, settled or refunded.
C5_MalformedProofIsAnswered402 ==
  \A r \in RequestIds :
    LET s == req[r] IN
    s.routeMatched /\ Malformed(s)
      => /\ NoPaymentCalls(s)
         /\ Served(s) => Answered(s, 402)

\* C5: on a protected route whose requirement set could be built (any EVM
\* route; a Solana route when supported() yields a fee payer) a proof header
\* that is not base64, or not JSON, is answered 402, never 500, and nothing is
\* verified, settled or refunded; when the set cannot be built the request
\* ends in an exception before the header is read.
C5_MalformedProofIsAnswered402OnceRequirementsBuilt ==
  \A r \in RequestIds :
    LET s == req[r] IN
    s.routeMatched /\ Malformed(s)
      => /\ NoPaymentCalls(s)
         /\ Served(s) /\ RequirementsBuilt(s) => Answered(s, 402)
         /\ Served(s) /\ ~RequirementsBuilt(s) => s.result = "exception"

C5_Witness ==
  \E r \in RequestIds :
    LET s == req[r] IN
    /\ Served(s) /\ s.routeMatched
    /\ s.request.paymentHeader.kind = "notJson"
    /\ s.network = "solana"
    /\ Answered(s, 402)

\* C6: a verification that reports the payment invalid ends the request with
\* 402 whose error is the configured verificationFailed message, else the
\* facilitator's invalidReason, and which echoes the verification's payer;
\* nothing is settled or refunded and no payment-response header is set.
C6_InvalidVerificationIsAnswered402 ==
  \A r \in RequestIds :
    LET s == req[r] IN
    s.verification # <<>> /\ ~s.verification[1].isValid
      => /\ Served(s) /\ Answered(s, 402)
         /\ s.response[1].error =
              (IF Truthy(s.errorMessages.verificationFailed)
               THEN s.errorMessages.verificationFailed
               ELSE s.verification[1].invalidReason)
         /\ s.response[1].payer = s.verification[1].payer
         /\ CallCount(s, "settle") = 0
         /\ CallCount(s, "refund") = 0
         /\ s.response[1].paymentResponse = <<>>

C6_Witness ==
  \E r \in RequestIds :
    LET s == req[r] IN
    /\ Served(s)
    /\ s.verification # <<>> /\ ~s.verification[1].isValid
    /\ ~Truthy(s.errorMessages.verificationFailed)
    /\ Truthy(s.verification[1].invalidReason)
    /\ s.response[1].error = s.verification[1].invalidReason
    /\ Truthy(s.response[1].payer)

\* C7: a settlement reporting success = false ends the request with 402
\* carrying the facilitator's errorReason and the requirement set, with no
\* refund and no payment-response header; an exception thrown by settle is
\* answered 402 with a settlement-failed message.
C7_FailedSettlementIsAnswered402 ==
  \A r \in RequestIds :
    LET s == req[r] IN
    /\ s.settlement # <<>> /\ ~s.settlement[1].success
         => /\ Served(s) /\ Answered(s, 402)
            /\ s.response[1].errorReason = s.settlement[1].errorReason
            /\ s.response[1].accepts = s.paymentRequirements
            /\ CallCount(s, "refund") = 0
            /\ s.response[1].paymentResponse = <<>>
    /\ s.threw = "settle"
         => /\ Served(s) /\ Answered(s, 402)
            /\ s.response[1].error =
                 (IF Truthy(s.errorMessages.settlementFailed)
                  THEN s.errorMessages.settlementFailed
                  ELSE "Settlement failed")
            /\ CallCount(s, "refund") = 0
            /\ s.response[1].paymentResponse = <<>>

ProofAbsent(s) == s.request.paymentHeader.kind = "absent"

\* the 402 of a request without proof: the paywall page for a browser, else
\* JSON listing the requirement set
PaymentRequired(s) ==
  LET resp == s.response[1] IN
  /\ Answered(s, 402)
  /\ IF /\ Includes(s.request.accept, "text/html")
        /\ Includes(s.request.userAgent, "Mozilla")
     THEN /\ resp.kind \in {"paywallHtml", "solanaPaywallHtml"}
          /\ resp.contentType = "text/html"
     ELSE /\ resp.kind = "json"
          /\ resp.contentType = "application/json"
          /\ resp.error = "X-PAYMENT header is required"
          /\ resp.accepts = s.paymentRequirements
          /\ Len(resp.accepts) = 1
          /\ resp.accepts[1].network = s.network
          /\ resp.accepts[1].scheme = "exact"

\* C8 as stated: a request to a protected route without proof header is
\* answered 402 (JSON with the requirement set, or the paywall page for a
\* browser) and nothing is verified, settled or refunded.
C8_NoProofIsAnswered402 ==
  \A r \in RequestIds :
    LET s == req[r] IN
    s.routeMatched /\ ProofAbsent(s)
      => /\ NoPaymentCalls(s)
         /\ Served(s) => PaymentRequired(s)

\* C8: on a protected route whose requirement set could be built (any EVM
\* route; a Solana route when supported() yields a fee payer) a request
\* without proof header is answered 402 (JSON with the requirement set, or the
\* paywall page for a browser) and nothing is verified, settled or refunded;
\* when the set cannot be built the request ends in an exception.
C8_NoProofIsAnswered402OnceRequirementsBuilt ==
  \A r \in RequestIds :
    LET s == req[r] IN
    s.routeMatched /\ ProofAbsent(s)
      => /\ NoPaymentCalls(s)
         /\ Served(s) /\ RequirementsBuilt(s) => PaymentRequired(s)
         /\ Served(s) /\ ~RequirementsBuilt(s) => s.result = "exception"

C8_Witness ==
  \E r \in RequestIds :
    LET s == req[r] IN
    /\ Served(s) /\ s.routeMatched /\ ProofAbsent(s)
    /\ Includes(s.request.accept, "text/html")
    /\ ~Includes(s.request.userAgent, "Mozilla")
    /\ s.response[1].kind = "json"
    /\ s.response[1].accepts # <<>>

\* the (scheme, network) a payload is matched on
MatchKey(payload) ==
  IF payload.accepted # <<>>
  THEN <<payload.accepted[1].scheme, payload.accepted[1].network>>
  ELSE <<IF Truthy(payload.scheme) THEN payload.scheme ELSE "exact",
         payload.network>>

Matches(requirement, payload) ==
  <<requirement.scheme, requirement.network>> = MatchKey(payload)

\* selected is the first element of requirements matching the payload, and
\* is empty exactly when none matches
IsFirstMatch(requirements, payload, selected) ==
  IF \A i \in 1..Len(requirements) : ~Matches(requirements[i], payload)
  THEN selected = <<>>
  ELSE \E i \in 1..Len(requirements) :
         /\ selected = <<requirements[i]>>
         /\ Matches(requirements[i], payload)
         /\ \A j \in 1..(i - 1) : ~Matches(requirements[j], payload)

RequirementLists ==
  SeqsUpTo([scheme : PayloadSchemes, network : PayloadNetworks,
            maxAmountRequired : {1, 2}],
           MaxRequirements)

FirstMatchOnAllLists ==
  \A requirements \in RequirementLists, payload \in Payloads :
    IsFirstMatch(requirements, payload,
                 findMatchingPaymentRequirements(requirements, payload))

\* C9: the requirement handed to verify and settle is the first one whose
\* (scheme, network) equals the payload's accepted.(scheme, network), else the
\* payload's top-level scheme (default "exact") and network; when none
\* matches the request is answered 402 "Unable to find matching payment
\* requirements" and verify is not called.
C9_FirstMatchingRequirementIsSelected ==
  /\ FirstMatchOnAllLists
  /\ \A r \in RequestIds :
       LET s == req[r] IN
       s.decodedPayment # <<>>
         => /\ IsFirstMatch(s.paymentRequirements, s.decodedPayment[1],
                            s.selectedPaymentRequirements)
            /\ \A i \in 1..Len(s.calls) :
                 s.calls[i].op \in {"verify", "settle"}
                   => s.calls[i].args[2] = s.selectedPaymentRequirements[1]
            /\ s.selectedPaymentRequirements = <<>>
                 => /\ Served(s) /\ Answered(s, 402)
                    /\ s.response[1].error =
                         "Unable to find matching payment requirements"
                    /\ CallCount(s, "verify") = 0

C9_Witness ==
  \E r \in RequestIds :
    LET s == req[r] IN
    /\ Served(s) /\ s.decodedPayment # <<>>
    /\ s.decodedPayment[1].accepted # <<>>
    /\ s.decodedPayment[1].accepted[1].scheme = "upto"
    /\ s.decodedPayment[1].scheme = Undefined
    /\ s.selectedPaymentRequirements = <<>>
    /\ Answered(s, 402)

\* no entry of the instance's route table has the request's path and verb
NoRouteFor(s) ==
  \A i \in 1..Len(s.routes) :
    \/ s.routes[i].path # s.request.pathname
    \/ /\ s.routes[i].verbs # <<>>
       /\ s.request.method \notin SeqRange(s.routes[i].verbs)
    \/ /\ s.routes[i].verbs = <<>>
       /\ s.request.method \notin AllVerbs

PassedThrough(s) ==
  /\ Served(s) /\ s.result = "response"
  /\ s.response[1] = NextResponseNext
  /\ s.calls = <<>>

\* C10: a request whose path and verb match no configured route passes
\* through unchanged: never 402, and the facilitator is never contacted.
C10_UnmatchedRequestPassesThrough ==
  \A r \in RequestIds :
    LET s == req[r] IN
    /\ s.routes # <<>> /\ NoRouteFor(s) => PassedThrough(s)
    /\ (/\ s.pc # "idle" /\ s.entry = "middleware"
        /\ s.request.method # "OPTIONS"
        /\ DispatchedNetwork(s.request.pathname) = <<>>)
         => PassedThrough(s)

C10_Witness ==
  \E r \in RequestIds :
    LET s == req[r] IN
    /\ s.entry = "factory" /\ s.routes # <<>>
    /\ s.request.pathname = <<"api", "base", "paid-content">>
    /\ s.request.method = "DELETE"
    /\ PassedThrough(s)

Delivered(s) == s.delivery # <<>>

\* C11: no payment is taken for failed content delivery: a handler response
\* with status >= 400 is returned without settle or refund being called, and
\* settle is called only after the protected resource's handler has produced
\* a response with status < 400.
C11_NoSettlementBeforeDelivery ==
  \A r \in RequestIds :
    LET s == req[r] IN
    /\ Delivered(s) /\ s.delivery[1].status >= 400
         => /\ CallCount(s, "settle") = 0
            /\ CallCount(s, "refund") = 0
    /\ CallCount(s, "settle") > 0
         => Delivered(s) /\ s.delivery[1].status < 400

----------------------------------------------------------------------------
(* The Facilitator Client on its own: one call at a time, on any answer *)

ClientStatuses == {200, 204, 402, 500}

\* the error shapes extractErrorMessage knows (FacilitatorErrorResponse)
ErrorBodies ==
  {<<>>, <<NoJson>>,
   <<[NoJson EXCEPT !.error = "rate limited"]>>,
   <<[NoJson EXCEPT !.invalidReason = "invalid_payload"]>>,
   <<[NoJson EXCEPT !.invalidReason = "invalid_payload",
                    !.invalidMessage = "bad nonce"]>>,
   <<[NoJson EXCEPT !.errorReason = "insufficient_funds"]>>,
   <<[NoJson EXCEPT !.errorReason = "insufficient_funds",
                    !.errorMessage = "balance 0"]>>,
   <<[NoJson EXCEPT !.message = "down"]>>,
   <<[NoJson EXCEPT !.isValid = "yes", !.success = "yes"]>>}

ClientVerifyAnswers ==
  VerifyAnswers
  \cup {FetchAnswer(st, b) : st \in ClientStatuses,
                             b \in VerifyBodies \cup ErrorBodies}

ClientSettleAnswers ==
  SettleAnswers
  \cup {FetchAnswer(st, b) : st \in ClientStatuses,
                             b \in SettleBodies \cup ErrorBodies}

ClientSupportedAnswers ==
  SupportedAnswers
  \cup {SupportedAnswer(TRUE, st, b, "none", <<>>, <<>>) :
          st \in ClientStatuses, b \in ErrorBodies}
  \cup {SupportedAnswer(TRUE, st, <<NoJson>>, "flat", k, <<>>) :
          st \in ClientStatuses, k \in SeqsUpTo(Kinds, 1)}

ClientCall(op, answer, outcome) ==
  [op |-> op, answer |-> answer, outcome |-> outcome]

ClientVerify ==
  /\ \E answer \in ClientVerifyAnswers :
       client' = ClientCall("verify", answer, verify(answer))
  /\ UNCHANGED <<req, engine, endpoint, resolver, jwt>>

ClientSettle ==
  /\ \E answer \in ClientSettleAnswers :
       client' = ClientCall("settle", answer, settle(answer))
  /\ UNCHANGED <<req, engine, endpoint, resolver, jwt>>

ClientSupported ==
  /\ \E answer \in ClientSupportedAnswers :
       client' = ClientCall("supported", answer, supported(answer))
  /\ UNCHANGED <<req, engine, endpoint, resolver, jwt>>

ClientNext == ClientVerify \/ ClientSettle \/ ClientSupported

ClientSpec == Init /\ [][ClientNext]_vars

\* the body names a reason in one of the fields extractErrorMessage reads
NamesReason(json) ==
  /\ json # <<>>
  /\ \E f \in {"error", "invalidReason", "errorReason", "message"} :
       Truthy(json[1][f])

HttpFallback(op, status) ==
  "facilitator_" \o op \o "_http_" \o ToString(status)

\* C12: verify and settle never throw: when the facilitator is unreachable,
\* answers with an error status, a non-JSON body, or JSON lacking a boolean
\* isValid (resp. success), verify returns {isValid: false, invalidReason} and
\* settle returns {success: false, errorReason}, the reason being the
\* extracted message or the http_<status> fallback.
C12_VerifySettleNeverThrow ==
  /\ client.op = "verify"
       => /\ ~client.outcome.threw
          /\ \/ ~client.answer.reachable
             \/ client.answer.json = <<>>
             \/ client.answer.json[1].isValid \notin {"true", "false"}
               => /\ ~client.outcome.value.isValid
                  /\ Truthy(client.outcome.value.invalidReason)
                  /\ client.answer.reachable
                     /\ ~NamesReason(client.answer.json)
                       => client.outcome.value.invalidReason =
                            HttpFallback("verify", client.answer.status)
  /\ client.op = "settle"
       => /\ ~client.outcome.threw
          /\ \/ ~client.answer.reachable
             \/ client.answer.json = <<>>
             \/ client.answer.json[1].success \notin {"true", "false"}
               => /\ ~client.outcome.value.success
                  /\ Truthy(client.outcome.value.errorReason)
                  /\ client.answer.reachable
                     /\ ~NamesReason(client.answer.json)
                       => client.outcome.value.errorReason =
                            HttpFallback("settle", client.answer.status)

IsOk(status) == status \in 200..299

\* C13: supported() raises only when the endpoint is unreachable or answers
\* non-2xx with no parseable body; in every other case (a non-2xx answer
\* with a JSON body, a 2xx answer without kinds) it returns a kinds list
\* holding protocol-version-2 entries only.
C13_SupportedRaisesOnlyWithoutBody ==
  client.op = "supported"
    => /\ client.outcome.threw
            <=> \/ ~client.answer.reachable
                \/ ~IsOk(client.answer.status) /\ client.answer.json = <<>>
       /\ ~client.outcome.threw
            => \A i \in 1..Len(client.outcome.kinds) :
                 client.outcome.kinds[i].x402Version = 2

\* supported() failed, or advertises no kind with this network and scheme
\* "exact" that carries a fee payer
NoFeePayer(outcome, network) ==
  \/ outcome.threw
  \/ ~\E i \in 1..Len(outcome.kinds) :
        /\ outcome.kinds[i].network = network
        /\ outcome.kinds[i].scheme = "exact"
        /\ Truthy(outcome.kinds[i].feePayer)

EndedInException(s) ==
  /\ Served(s) /\ s.result = "exception"
  /\ s.response = <<>>
  /\ NoPaymentCalls(s)

\* C14: on a Solana route, whenever supported() fails or advertises no kind
\* with the route's network and scheme "exact" carrying a feePayer, the
\* request ends in an exception: no 402 is rendered and verify, settle and
\* refund are not called; on an EVM route supported() is never called.
C14_SolanaRouteNeedsFeePayer ==
  \A r \in RequestIds :
    LET s == req[r] IN
    /\ s.pc = "awaitSupported"
         => /\ s.network \in SupportedSVMNetworks
            /\ \A outcome \in SupportedOutcomes :
                 NoFeePayer(outcome, s.network)
                   => EndedInException(AfterSupported(s, outcome))
    /\ s.routeMatched /\ s.network \in SupportedSVMNetworks
       /\ s.pc # "awaitSupported" /\ ~Truthy(s.feePayer)
         => EndedInException(s)
    /\ s.routeMatched /\ s.network \in SupportedEVMNetworks
         => CallCount(s, "supported") = 0

C14_Witness ==
  \E r \in RequestIds :
    LET s == req[r] IN
    /\ s.network = "solana" /\ CallCount(s, "supported") = 1
    /\ EndedInException(s)
    /\ s.threw # "supported"

----------------------------------------------------------------------------
(* The Refund Engine: refund(recipient, selectedPaymentRequirements) *)

\* bound: the refund() calls of one run
MaxRefunds == 2

RefundIds == 1..MaxRefunds

NETWORK_TO_CAIP2 ==
  [n \in SupportedEVMNetworks \cup SupportedSVMNetworks |->
     CASE n = "base" -> "eip155:8453"
       [] n = "base-sepolia" -> "eip155:84532"
       [] n = "avalanche" -> "eip155:43114"
       [] n = "avalanche-fuji" -> "eip155:43113"
       [] n = "polygon" -> "eip155:137"
       [] n = "polygon-amoy" -> "eip155:80002"
       [] n = "sei" -> "eip155:1329"
       [] n = "sei-testnet" -> "eip155:713715"
       [] n = "xlayer" -> "eip155:196"
       [] n = "xlayer-testnet" -> "eip155:1952"
       [] n = "peaq" -> "eip155:3338"
       [] n = "iotex" -> "eip155:4689"
       [] n = "skale-base" -> "eip155:1187947933"
       [] n = "skale-base-sepolia" -> "eip155:324705682"
       [] n = "solana" -> "solana:5eykt4UsFv8P8NJdTREpY1vzqKqZKvdp"
       [] n = "solana-devnet" -> "solana:EtWTRABZaYq6iMfeYKouRu166VU2xqa1"]

\* Object.fromEntries of the reversed entries; undefined for any other key
CAIP2_TO_NETWORK(network) ==
  LET names == {n \in DOMAIN NETWORK_TO_CAIP2 : NETWORK_TO_CAIP2[n] = network}
  IN IF names = {} THEN Undefined ELSE CHOOSE n \in names : TRUE

\* a CAIP-2 identifier no table knows
UnknownCaip2 == "eip155:1"

\* network.includes(':')
HasColon(network) ==
  network \in {NETWORK_TO_CAIP2[n] : n \in DOMAIN NETWORK_TO_CAIP2}
              \cup {UnknownCaip2}

getFriendlyNetworkName(network) ==
  IF ~HasColon(network) THEN network
  ELSE OrElse(CAIP2_TO_NETWORK(network), network)

\* viem isAddress / getAddress: a malformed address makes getAddress throw
MalformedAddress == Addr("invalid-address", FALSE)

isAddress(a) == a # MalformedAddress

\* mutant: only the recipient is looked at
AddressesValidRecipientOnly(recipient, asset) == isAddress(recipient)

\* refund.ts 210-211: both addresses are well formed
AddressesValid(recipient, asset) == isAddress(recipient) /\ isAddress(asset)

\* one refund() call: where it stands, the calls it has awaited in order, and
\* how it ended
RefundTask(pc, steps, result, value, error) ==
  [pc |-> pc, steps |-> steps, result |-> result, value |-> value,
   error |-> error]

NotCalled == RefundTask("idle", <<>>, "pending", Undefined, Undefined)

\* the process: environment, the cached EVM account, the transfers issued
Engine(env, args) ==
  [started |-> TRUE, env |-> env, args |-> args,
   evmAccount |-> <<>>, accountsBuilt |-> 0,
   transfers |-> <<>>,
   tasks |-> [i \in RefundIds |-> NotCalled]]

\* return value: the promise of refund() resolves
Return(e, i, value) ==
  [e EXCEPT !.tasks[i].pc = "done", !.tasks[i].result = "returned",
            !.tasks[i].value = value]

\* throw new Error / a rejected await: the promise of refund() rejects
Reject(e, i, error) ==
  [e EXCEPT !.tasks[i].pc = "done", !.tasks[i].result = "threw",
            !.tasks[i].error = error]

\* await call(...): the call is issued and the task suspends
AwaitStep(e, i, step, pc) ==
  [e EXCEPT !.tasks[i].pc = pc, !.tasks[i].steps = Append(@, step)]

\* mutant: the account is built on every call
getEvmAccountUncached(e) ==
  IF ~e.env.EVM_PRIVATE_KEY
  THEN [threw |-> TRUE,
        error |-> "EVM_PRIVATE_KEY environment variable is not set",
        engine |-> e]
  ELSE [threw |-> FALSE, error |-> Undefined,
        engine |-> [e EXCEPT !.evmAccount = <<"account">>,
                             !.accountsBuilt = @ + 1]]

\* getEvmAccount: the account is built once and cached
getEvmAccount(e) ==
  IF e.evmAccount # <<>>
  THEN [threw |-> FALSE, error |-> Undefined, engine |-> e]
  ELSE IF ~e.env.EVM_PRIVATE_KEY
  THEN [threw |-> TRUE,
        error |-> "EVM_PRIVATE_KEY environment variable is not set",
        engine |-> e]
  ELSE [threw |-> FALSE, error |-> Undefined,
        engine |-> [e EXCEPT !.evmAccount = <<"account">>,
                             !.accountsBuilt = @ + 1]]

\* getSvmPrivateKey
getSvmPrivateKey(e) ==
  IF ~e.env.SVM_PRIVATE_KEY
  THEN [threw |-> TRUE,
        error |-> "SVM_PRIVATE_KEY environment variable is not set"]
  ELSE [threw |-> FALSE, error |-> Undefined]

\* mutant: the EVM account is fetched before the network is looked at
getSignerAccountFirst(e, network) ==
  LET key == getSvmPrivateKey(e)
      account == getEvmAccount(e)
  IN
  IF account.threw
  THEN [threw |-> TRUE, error |-> account.error, family |-> "evm",
        engine |-> e]
  ELSE IF network \in {"solana-devnet", "solana"}
  THEN [threw |-> key.threw, error |-> key.error, family |-> "svm",
        engine |-> e]
  ELSE IF network \in SupportedEVMNetworks
  THEN [threw |-> FALSE, error |-> Undefined, family |-> "evm",
        engine |-> account.engine]
  ELSE [threw |-> TRUE, error |-> "Unsupported network", family |-> "evm",
        engine |-> account.engine]

\* getSigner up to its await: the Solana networks first (no EVM key
\* needed), then one wallet client per EVM chain
getSigner(e, network) ==
  LET key == getSvmPrivateKey(e)
      account == getEvmAccount(e)
  IN
  IF network \in {"solana-devnet", "solana"}
  THEN [threw |-> key.threw, error |-> key.error, family |-> "svm",
        engine |-> e]
  ELSE IF account.threw
  THEN [threw |-> TRUE, error |-> account.error, family |-> "evm",
        engine |-> e]
  ELSE IF network \in SupportedEVMNetworks
  THEN [threw |-> FALSE, error |-> Undefined, family |-> "evm",
        engine |-> account.engine]
  ELSE [threw |-> TRUE, error |-> "Unsupported network", family |-> "evm",
        engine |-> account.engine]

\* signer.writeContract({address, functionName: 'transfer', args})
EvmTransfer(i, chain, address, to, amount) ==
  [task |-> i, family |-> "evm", chain |-> chain, address |-> address,
   functionName |-> "transfer", to |-> to, amount |-> amount,
   commitment |-> Undefined]

\* sendAndConfirmTransaction of the transferChecked instruction
SvmTransfer(i, chain, mint, to, amount) ==
  [task |-> i, family |-> "svm", chain |-> chain, address |-> mint,
   functionName |-> "transferChecked", to |-> to, amount |-> amount,
   commitment |-> "confirmed"]

\* mutant: a transfer equal to one already issued is dropped
IssueTransferOnce(e, transfer) ==
  IF \E k \in 1..Len(e.transfers) :
       [e.transfers[k] EXCEPT !.task = transfer.task] = transfer
  THEN e
  ELSE [e EXCEPT !.transfers = Append(@, transfer)]

\* the transfer leaves the process: writeContract is invoked, or the signed
\* transaction is handed to sendAndConfirmTransaction
IssueTransfer(e, transfer) ==
  [e EXCEPT !.transfers = Append(@, transfer)]

\* refund.ts 206-221 up to the await of writeContract
EvmRefund(e, i, networkForSigner) ==
  LET recipient == e.args.recipient
      requirements == e.args.selectedPaymentRequirements
      signer == getSigner(e, networkForSigner)
      f == signer.engine
  IN
  IF signer.threw THEN Reject(f, i, signer.error)
  ELSE IF ~AddressesValid(recipient, requirements.asset)
  THEN Reject(f, i, "InvalidAddressError")
  ELSE AwaitStep(
         IssueTransfer(f, EvmTransfer(i, networkForSigner,
                                      getAddress(requirements.asset),
                                      getAddress(recipient),
                                      requirements.amount)),
         i, "writeContract", "awaitWriteContract")

\* refund.ts 222-223 up to the await of createSigner
SvmRefund(e, i, networkForSigner) ==
  LET signer == getSigner(e, networkForSigner) IN
  IF signer.threw THEN Reject(e, i, signer.error)
  ELSE AwaitStep(e, i, "createSigner", "awaitSigner")

\* refund.ts 196-299 from the call to its first await
refund(e, i) ==
  LET networkForSigner ==
        getFriendlyNetworkName(e.args.selectedPaymentRequirements.network)
  IN
  IF networkForSigner \in SupportedEVMNetworks
  THEN EvmRefund(e, i, networkForSigner)
  ELSE IF networkForSigner \in SupportedSVMNetworks
  THEN SvmRefund(e, i, networkForSigner)
  ELSE Return(e, i, Undefined)

\* what an awaited call delivers
Resolved(value) == [ok |-> TRUE, value |-> value, error |-> Undefined]

Rejected(error) == [ok |-> FALSE, value |-> Undefined, error |-> error]

WriteContractOutcomes ==
  {Resolved("0xrefundTxHash"),
   Rejected("insufficient funds for transfer"),
   Rejected("gas estimation failed")}

RpcOutcomes == {Resolved("ok"), Rejected("Network request failed")}

\* mutant: a rejected transfer is issued again
AfterWriteContractRetry(e, i, outcome) ==
  IF outcome.ok THEN Return(e, i, outcome.value)
  ELSE AwaitStep(IssueTransfer(e, e.transfers[Len(e.transfers)]),
                 i, "writeContract", "awaitWriteContract")

\* refund.ts 212-221 from the return of writeContract
AfterWriteContract(e, i, outcome) ==
  IF outcome.ok THEN Return(e, i, outcome.value)
  ELSE Reject(e, i, outcome.error)

\* the Solana refund from the return of one await to the next await
AfterSvmStep(e, i, outcome, step, pc) ==
  IF outcome.ok THEN AwaitStep(e, i, step, pc)
  ELSE Reject(e, i, outcome.error)

\* refund.ts 263-279: the transfer instruction is built between the second
\* findAssociatedTokenPda and getLatestBlockhash; with an undefined amount the
\* instruction encoder may throw (built == FALSE)
AfterDestinationAta(e, i, outcome, built) ==
  IF outcome.ok /\ ~built THEN Reject(e, i, "instruction encoding failed")
  ELSE AfterSvmStep(e, i, outcome, "getLatestBlockhash", "awaitBlockhash")

\* refund.ts 288-294: the signed transaction is submitted
AfterSign(e, i, outcome) ==
  LET requirements == e.args.selectedPaymentRequirements
      submitted ==
        IssueTransfer(e, SvmTransfer(i,
                                     getFriendlyNetworkName(requirements.network),
                                     requirements.asset, e.args.recipient,
                                     requirements.amount))
  IN
  IF outcome.ok
  THEN AwaitStep(submitted, i, "sendAndConfirmTransaction",
                 "awaitSendAndConfirm")
  ELSE Reject(e, i, outcome.error)

\* mutant: the signature is returned whatever the confirmation says
AfterSendAndConfirmUnchecked(e, i, outcome) == Return(e, i, "signature")

\* refund.ts 292-297 from the return of sendAndConfirmTransaction
AfterSendAndConfirm(e, i, outcome) ==
  IF outcome.ok THEN Return(e, i, "signature")
  ELSE Reject(e, i, outcome.error)

\* the calls the engine is given
Recipients == {Addr("0xPayer", FALSE), MalformedAddress}

Assets == {Addr("0xUSDC", TRUE), MalformedAddress}

\* the amount of a requirement: under maxAmountRequired as the gate builds
\* it (middleware.ts 628), or under amount
AmountFields ==
  {[amount |-> Undefined, maxAmountRequired |-> "10000"],
   [amount |-> "10000", maxAmountRequired |-> Undefined],
   [amount |-> "1000", maxAmountRequired |-> Undefined]}

Requirements(network, asset, amounts) ==
  [network |-> network, asset |-> asset, amount |-> amounts.amount,
   maxAmountRequired |-> amounts.maxAmountRequired]

RefundArgs(recipient, requirements) ==
  [recipient |-> recipient, selectedPaymentRequirements |-> requirements]

EvmRefundArgs ==
  {RefundArgs(recipient, Requirements(n, asset, a)) :
     recipient \in Recipients, n \in {"base", NETWORK_TO_CAIP2["base"]},
     asset \in Assets, a \in AmountFields}

SvmRefundArgs ==
  {RefundArgs(Addr("SolPayer", FALSE),
              Requirements(n, Addr("USDCMint", FALSE), a)) :
     n \in {"solana", NETWORK_TO_CAIP2["solana"]}, a \in AmountFields}

OtherRefundArgs ==
  {RefundArgs(Addr("0xPayer", FALSE),
              Requirements(n, Addr("0xUSDC", TRUE),
                           [amount |-> "10000",
                            maxAmountRequired |-> Undefined])) :
     n \in {"bitcoin", UnknownCaip2}}

AllRefundArgs == EvmRefundArgs \cup SvmRefundArgs \cup OtherRefundArgs

\* process.env: which private keys are set
Envs ==
  {[EVM_PRIVATE_KEY |-> TRUE, SVM_PRIVATE_KEY |-> TRUE],
   [EVM_PRIVATE_KEY |-> FALSE, SVM_PRIVATE_KEY |-> TRUE],
   [EVM_PRIVATE_KEY |-> TRUE, SVM_PRIVATE_KEY |-> FALSE]}

\* refund() is called
RefundCall(i) ==
  /\ engine.tasks[i].pc = "idle"
  /\ engine' = refund(engine, i)
  /\ UNCHANGED <<req, client, endpoint, resolver, jwt>>

WriteContractReturns(i) ==
  /\ engine.tasks[i].pc = "awaitWriteContract"
  /\ \E outcome \in WriteContractOutcomes :
       engine' = AfterWriteContract(engine, i, outcome)
  /\ UNCHANGED <<req, client, endpoint, resolver, jwt>>

CreateSignerReturns(i) ==
  /\ engine.tasks[i].pc = "awaitSigner"
  /\ \E outcome \in RpcOutcomes :
       engine' = AfterSvmStep(engine, i, outcome, "fetchMint",
                              "awaitFetchMint")
  /\ UNCHANGED <<req, client, endpoint, resolver, jwt>>

FetchMintReturns(i) ==
  /\ engine.tasks[i].pc = "awaitFetchMint"
  /\ \E outcome \in RpcOutcomes :
       engine' = AfterSvmStep(engine, i, outcome, "findAssociatedTokenPda",
                              "awaitSourceAta")
  /\ UNCHANGED <<req, client, endpoint, resolver, jwt>>

SourceAtaReturns(i) ==
  /\ engine.tasks[i].pc = "awaitSourceAta"
  /\ \E outcome \in RpcOutcomes :
       engine' = AfterSvmStep(engine, i, outcome, "findAssociatedTokenPda",
                              "awaitDestinationAta")
  /\ UNCHANGED <<req, client, endpoint, resolver, jwt>>

DestinationAtaReturns(i) ==
  /\ engine.tasks[i].pc = "awaitDestinationAta"
  /\ \E outcome \in RpcOutcomes,
        built \in IF engine.args.selectedPaymentRequirements.amount = Undefined
                  THEN BOOLEAN ELSE {TRUE} :
       engine' = AfterDestinationAta(engine, i, outcome, built)
  /\ UNCHANGED <<req, client, endpoint, resolver, jwt>>

LatestBlockhashReturns(i) ==
  /\ engine.tasks[i].pc = "awaitBlockhash"
  /\ \E outcome \in RpcOutcomes :
       engine' = AfterSvmStep(engine, i, outcome,
                              "signTransactionMessageWithSigners",
                              "awaitSign")
  /\ UNCHANGED <<req, client, endpoint, resolver, jwt>>

SignReturns(i) ==
  /\ engine.tasks[i].pc = "awaitSign"
  /\ \E outcome \in RpcOutcomes :
       engine' = AfterSign(engine, i, outcome)
  /\ UNCHANGED <<req, client, endpoint, resolver, jwt>>

SendAndConfirmReturns(i) ==
  /\ engine.tasks[i].pc = "awaitSendAndConfirm"
  /\ \E outcome \in RpcOutcomes :
       engine' = AfterSendAndConfirm(engine, i, outcome)
  /\ UNCHANGED <<req, client, endpoint, resolver, jwt>>

RefundInit ==
  /\ req = [r \in RequestIds |-> Idle]
  /\ client = NoCall
  /\ engine \in {Engine(env, args) : env \in Envs, args \in AllRefundArgs}
  /\ endpoint = NoPosts
  /\ resolver = NotResolved
  /\ jwt = NoJwt

RefundNext ==
  \E i \in RefundIds :
    \/ RefundCall(i)
    \/ WriteContractReturns(i)
    \/ CreateSignerReturns(i)
    \/ FetchMintReturns(i)
    \/ SourceAtaReturns(i)
    \/ DestinationAtaReturns(i)
    \/ LatestBlockhashReturns(i)
    \/ SignReturns(i)
    \/ SendAndConfirmReturns(i)

RefundSpec == RefundInit /\ [][RefundNext]_vars

----------------------------------------------------------------------------
(* Properties of the Refund Engine *)

FriendlyNetwork == 
  getFriendlyNetworkName(engine.args.selectedPaymentRequirements.network)

Task(i) == engine.tasks[i]

TransfersOf(i) == SelectSeq(engine.transfers, LAMBDA t : t.task = i)

StepCount(i, step) ==
  Len(SelectSeq(Task(i).steps, LAMBDA x : x = step))

\* C15: refund() on a network that is, after CAIP-2 normalisation, in neither
\* the EVM nor the Solana list raises 'Unsupported network'; refund() never
\* completes normally without having issued a transfer.
C15_UnsupportedNetworkRaises ==
  \A i \in RefundIds :
    /\ Task(i).pc # "idle"
       /\ FriendlyNetwork \notin SupportedEVMNetworks \cup SupportedSVMNetworks
         => /\ Task(i).result = "threw"
            /\ Task(i).error = "Unsupported network"
    /\ Task(i).result = "returned" => Len(TransfersOf(i)) >= 1

\* C16: an EVM refund issues the token transfer at most once per refund()
\* call; when the transfer rejects, refund() rejects with that same error and
\* returns no transaction hash.
C16_EvmRefundDoesNotRetry ==
  \A i \in RefundIds :
    FriendlyNetwork \in SupportedEVMNetworks
      => /\ StepCount(i, "writeContract") <= 1
         /\ Len(TransfersOf(i)) = StepCount(i, "writeContract")
         /\ Task(i).result = "threw" => Task(i).value = Undefined
         /\ Task(i).pc = "awaitWriteContract"
              => \A outcome \in WriteContractOutcomes :
                   ~outcome.ok
                     => LET a == AfterWriteContract(engine, i, outcome) IN
                        /\ a.tasks[i].pc = "done"
                        /\ a.tasks[i].result = "threw"
                        /\ a.tasks[i].error = outcome.error
                        /\ a.tasks[i].value = Undefined
                        /\ a.tasks[i].steps = Task(i).steps
                        /\ a.transfers = engine.transfers

C16_Witness ==
  \E i \in RefundIds :
    /\ FriendlyNetwork \in SupportedEVMNetworks
    /\ Task(i).result = "threw"
    /\ Task(i).error = "insufficient funds for transfer"
    /\ Task(i).steps = <<"writeContract">>

\* C17: an EVM refund validates the recipient and the token-contract address
\* before transferring: if either is malformed refund() throws and the
\* transfer call is never issued.
C17_EvmRefundValidatesAddresses ==
  \A i \in RefundIds :
    /\ Task(i).pc # "idle"
    /\ FriendlyNetwork \in SupportedEVMNetworks
    /\ \/ engine.args.recipient = MalformedAddress
       \/ engine.args.selectedPaymentRequirements.asset = MalformedAddress
    => /\ Task(i).pc = "done" /\ Task(i).result = "threw"
       /\ StepCount(i, "writeContract") = 0
       /\ TransfersOf(i) = <<>>

C17_Witness ==
  \E i \in RefundIds :
    /\ FriendlyNetwork \in SupportedEVMNetworks
    /\ engine.args.recipient # MalformedAddress
    /\ engine.args.selectedPaymentRequirements.asset = MalformedAddress
    /\ Task(i).result = "threw"
    /\ Task(i).error = "InvalidAddressError"

\* the amount a requirement asks for: maxAmountRequired as the gate builds
\* it, else amount
AmountRequired(requirements) ==
  IF requirements.maxAmountRequired # Undefined
  THEN requirements.maxAmountRequired
  ELSE requirements.amount

\* C18: an EVM refund transfers back exactly what the payer was asked to pay:
\* its single transfer is made on the requirements' asset contract with
\* arguments (recipient, amount required by the requirements).
C18_EvmRefundTransfersTheAmountRequired ==
  \A k \in 1..Len(engine.transfers) :
    LET t == engine.transfers[k]
        requirements == engine.args.selectedPaymentRequirements
    IN
    t.family = "evm"
      => /\ t.functionName = "transfer"
         /\ t.address.text = requirements.asset.text
         /\ t.to.text = engine.args.recipient.text
         /\ t.amount = AmountRequired(requirements)
         /\ Len(TransfersOf(t.task)) = 1

SvmOrder ==
  <<"createSigner", "fetchMint", "findAssociatedTokenPda",
    "findAssociatedTokenPda", "getLatestBlockhash",
    "signTransactionMessageWithSigners", "sendAndConfirmTransaction">>

\* C19: a Solana refund returns the signature only after the signed
\* transaction has been submitted and confirmed at 'confirmed' commitment,
\* its calls made in the order fetch mint, derive the token accounts, fetch
\* the latest blockhash, sign, send-and-confirm; when submission or
\* confirmation fails refund() rejects with that error and returns no
\* signature.
C19_SvmRefundReturnsAfterConfirmation ==
  \A i \in RefundIds :
    FriendlyNetwork \in SupportedSVMNetworks
      => /\ Len(Task(i).steps) <= Len(SvmOrder)
         /\ Task(i).steps = SubSeq(SvmOrder, 1, Len(Task(i).steps))
         /\ Task(i).result = "returned"
              => /\ Task(i).steps = SvmOrder
                 /\ Task(i).value = "signature"
                 /\ Len(TransfersOf(i)) = 1
                 /\ TransfersOf(i)[1].commitment = "confirmed"
         /\ Task(i).result = "threw" => Task(i).value = Undefined
         /\ Task(i).pc = "awaitSendAndConfirm"
              => /\ Task(i).result = "pending"
                 /\ \A outcome \in RpcOutcomes :
                      ~outcome.ok
                        => LET a == AfterSendAndConfirm(engine, i, outcome) IN
                           /\ a.tasks[i].result = "threw"
                           /\ a.tasks[i].error = outcome.error
                           /\ a.tasks[i].value = Undefined

C19_Witness ==
  \E i \in RefundIds :
    /\ FriendlyNetwork \in SupportedSVMNetworks
    /\ Task(i).result = "returned"
    /\ Task(i).value = "signature"

ReachedTransfer(i) ==
  StepCount(i, "writeContract") + StepCount(i, "sendAndConfirmTransaction") > 0

\* C20: the engine has no idempotency: when n refund() calls for the same
\* (recipient, requirements) have reached the transfer step, exactly n
\* transfers have been issued, one per call.
C20_EveryCallIssuesItsOwnTransfer ==
  /\ Len(engine.transfers) = Cardinality({i \in RefundIds : ReachedTransfer(i)})
  /\ \A i \in RefundIds : ReachedTransfer(i) => Len(TransfersOf(i)) = 1

C20_Witness ==
  \E i, j \in RefundIds :
    /\ i # j
    /\ ReachedTransfer(i) /\ ReachedTransfer(j)
    /\ Len(engine.transfers) >= 2
    /\ [TransfersOf(i)[1] EXCEPT !.task = j] = TransfersOf(j)[1]

\* a refund() call on an EVM network has been made
EvmRefundCalled ==
  /\ FriendlyNetwork \in SupportedEVMNetworks
  /\ \E i \in RefundIds : Task(i).pc # "idle"

\* C26: the EVM signer (the account holding the merchant's key) is a
\* process-wide singleton: over any interleaving of refund calls it is
\* constructed at most once, not before the first EVM refund, and every later
\* EVM refund call reuses it unchanged.
C26_EvmAccountIsASingleton ==
  /\ engine.accountsBuilt <= 1
  /\ engine.accountsBuilt = 1 <=> engine.evmAccount # <<>>
  /\ engine.accountsBuilt = 1 => EvmRefundCalled
  /\ engine.evmAccount # <<>>
       => \A i \in RefundIds :
            Task(i).pc = "idle"
              => LET after == refund(engine, i) IN
                 /\ after.evmAccount = engine.evmAccount
                 /\ after.accountsBuilt = engine.accountsBuilt

C26_Witness ==
  \E i, j \in RefundIds :
    /\ i # j
    /\ StepCount(i, "writeContract") = 1
    /\ StepCount(j, "writeContract") = 1
    /\ engine.accountsBuilt = 1

KeyError(family) ==
  IF family = "evm"
  THEN "EVM_PRIVATE_KEY environment variable is not set"
  ELSE "SVM_PRIVATE_KEY environment variable is not set"

FailedFast(i, family) ==
  /\ Task(i).pc = "done" /\ Task(i).result = "threw"
  /\ Task(i).error = KeyError(family)
  /\ Task(i).steps = <<>>
  /\ TransfersOf(i) = <<>>
  /\ engine.evmAccount = <<>> /\ engine.accountsBuilt = 0

\* C27: missing key material fails fast at first use: an EVM refund with
\* EVM_PRIVATE_KEY unset, or a Solana refund with SVM_PRIVATE_KEY unset,
\* throws before any address validation, RPC call or transfer, and nothing
\* is cached; a Solana refund does not need the EVM key.
C27_MissingKeyFailsFast ==
  \A i \in RefundIds :
    Task(i).pc # "idle"
      => /\ FriendlyNetwork \in SupportedEVMNetworks
            /\ ~engine.env.EVM_PRIVATE_KEY
              => FailedFast(i, "evm")
         /\ FriendlyNetwork \in SupportedSVMNetworks
            /\ ~engine.env.SVM_PRIVATE_KEY
              => FailedFast(i, "svm")
         /\ FriendlyNetwork \in SupportedSVMNetworks
            /\ engine.env.SVM_PRIVATE_KEY
              => /\ Task(i).error # KeyError("evm")
                 /\ Len(Task(i).steps) >= 1

C27_Witness ==
  \E i, j \in RefundIds :
    /\ i # j
    /\ FriendlyNetwork \in SupportedEVMNetworks
    /\ ~engine.env.EVM_PRIVATE_KEY
    /\ engine.args.recipient = MalformedAddress
    /\ FailedFast(i, "evm") /\ FailedFast(j, "evm")

----------------------------------------------------------------------------
(* Refund endpoint: POST /api/facilitator/refund *)

\* NextResponse.json(body, {status})
EndpointResponse(status, error, refundTxHash) ==
  [status |-> status, error |-> error, refundTxHash |-> refundTxHash]

\* one POST: its JSON body (an absent field is the empty sequence), where the handler stands, and its response
Post(pc, body, response) ==
  [pc |-> pc, body |-> body, response |-> response]

NotPosted == Post("idle", <<>>, <<>>)

\* mutant: only the recipient is required
BodyIncompleteRecipientOnly(body) == body.recipient = <<>>

\* the body is checked before anything else
BodyIncomplete(body) ==
  \/ body.recipient = <<>>
  \/ body.selectedPaymentRequirements = <<>>

\* POST up to the await of refund(recipient, selectedPaymentRequirements)
RefundPOST(e, posts, i, body) ==
  IF BodyIncomplete(body)
  THEN [engine |-> e,
        posts |->
          [posts EXCEPT ![i] =
             Post("done", body,
                  <<EndpointResponse(
                      400, "Missing recipient or payment requirements",
                      Undefined)>>)]]
  ELSE [engine |-> refund(e, i),
        posts |-> [posts EXCEPT ![i] = Post("awaitRefund", body, <<>>)]]

\* mutant: the message of the exception is passed on
RefundFailedWithDetail(task) ==
  EndpointResponse(500, task.error, Undefined)

\* catch: the fixed body
RefundFailed(task) ==
  EndpointResponse(500, "Refund failed", Undefined)

\* POST from the return of refund()
AfterRefundCall(posts, i, task) ==
  [posts EXCEPT ![i].pc = "done",
                ![i].response =
                  <<IF task.result = "threw"
                    THEN RefundFailed(task)
                    ELSE EndpointResponse(200, Undefined, task.value)>>]

\* the bodies a POST can carry: each field present or absent
PostBodies(args) ==
  {[recipient |-> recipient, selectedPaymentRequirements |-> requirements] :
     recipient \in {<<args.recipient>>, <<>>},
     requirements \in {<<args.selectedPaymentRequirements>>, <<>>}}

PostReceive(i) ==
  /\ endpoint[i].pc = "idle"
  /\ \E body \in PostBodies(engine.args) :
       LET after == RefundPOST(engine, endpoint, i, body) IN
       /\ engine' = after.engine
       /\ endpoint' = after.posts
  /\ UNCHANGED <<req, client, resolver, jwt>>

PostReturns(i) ==
  /\ endpoint[i].pc = "awaitRefund"
  /\ engine.tasks[i].pc = "done"
  /\ endpoint' = AfterRefundCall(endpoint, i, engine.tasks[i])
  /\ UNCHANGED <<req, client, engine, resolver, jwt>>

\* a step of the engine on behalf of a POST
EngineStep(i) ==
  /\ \/ WriteContractReturns(i)
     \/ CreateSignerReturns(i)
     \/ FetchMintReturns(i)
     \/ SourceAtaReturns(i)
     \/ DestinationAtaReturns(i)
     \/ LatestBlockhashReturns(i)
     \/ SignReturns(i)
     \/ SendAndConfirmReturns(i)

EndpointInit ==
  /\ req = [r \in RequestIds |-> Idle]
  /\ client = NoCall
  /\ engine \in {Engine(env, args) : env \in Envs, args \in AllRefundArgs}
  /\ endpoint = [i \in RefundIds |-> NotPosted]
  /\ resolver = NotResolved
  /\ jwt = NoJwt

EndpointNext ==
  \E i \in RefundIds :
    \/ PostReceive(i)
    \/ PostReturns(i)
    \/ EngineStep(i)

EndpointSpec == EndpointInit /\ [][EndpointNext]_vars

----------------------------------------------------------------------------
(* Properties of the refund endpoint *)

\* C21: when the body lacks recipient or lacks selectedPaymentRequirements
\* the refund endpoint answers 400 with the error 'Missing recipient or
\* payment requirements', and the Refund Engine is never invoked for it.
C21_IncompleteBodyIsAnswered400 ==
  \A i \in RefundIds :
    /\ endpoint[i].pc # "idle"
       /\ \/ endpoint[i].body.recipient = <<>>
          \/ endpoint[i].body.selectedPaymentRequirements = <<>>
       => /\ endpoint[i].pc = "done"
          /\ endpoint[i].response =
               <<EndpointResponse(
                   400, "Missing recipient or payment requirements",
                   Undefined)>>
          /\ engine.tasks[i] = NotCalled
    /\ engine.tasks[i] # NotCalled
         => /\ endpoint[i].body.recipient = <<engine.args.recipient>>
            /\ endpoint[i].body.selectedPaymentRequirements =
                 <<engine.args.selectedPaymentRequirements>>

C21_Witness ==
  \E i, j \in RefundIds :
    /\ endpoint[i].pc = "done"
    /\ endpoint[i].body.recipient = <<>>
    /\ endpoint[i].body.selectedPaymentRequirements # <<>>
    /\ endpoint[j].pc = "done"
    /\ endpoint[j].body.recipient # <<>>
    /\ endpoint[j].body.selectedPaymentRequirements = <<>>

\* C22: when the Refund Engine throws the endpoint answers 500 with the fixed
\* body {error: 'Refund failed'}, carrying no hash and nothing of the
\* exception; when the engine returns a hash it answers 200 with
\* refundTxHash equal to that hash.
C22_EngineOutcomeIsReported ==
  \A i \in RefundIds :
    endpoint[i].pc = "done" /\ engine.tasks[i] # NotCalled
      => LET task == engine.tasks[i]
             response == endpoint[i].response[1]
         IN
         /\ task.pc = "done"
         /\ task.result = "threw"
              => response = EndpointResponse(500, "Refund failed", Undefined)
         /\ task.result = "returned" /\ Truthy(task.value)
              => response = EndpointResponse(200, Undefined, task.value)

C22_Witness ==
  \E i, j \in RefundIds :
    /\ endpoint[i].pc = "done" /\ endpoint[i].response[1].status = 500
    /\ engine.tasks[i].error = "insufficient funds for transfer"
    /\ endpoint[j].pc = "done" /\ endpoint[j].response[1].status = 200
    /\ Truthy(endpoint[j].response[1].refundTxHash)

----------------------------------------------------------------------------
(* Properties of the final content *)

FinalContent(response) == response.kind \in {"contentHtml", "contentJson"}

\* the hash the refund step produced for the gate: the refundTxHash of an ok
\* answer of the refund sub-request
RefundHash(s) ==
  IF s.refund # <<>> /\ ~s.refund[1].threw /\ s.refund[1].ok
  THEN s.refund[1].refundTxHash
  ELSE Undefined

\* C23: the final content reports the refund outcome with exactly one of two
\* fields: refundTransaction (equal to the refund hash) and no refundFailed
\* when the refund step produced a hash, refundFailed and no
\* refundTransaction when it did not; a hash reaches the content handler only
\* when the refund sub-request returned ok.
C23_FinalContentReportsRefundOutcome ==
  \A r \in RequestIds :
    LET s == req[r] IN
    s.pc = "done" /\ s.result = "response"
      => LET response == s.response[1] IN
         /\ s.refund # <<>> /\ ~s.refund[1].threw => FinalContent(response)
         /\ FinalContent(response)
              => /\ s.refund # <<>>
                 /\ Truthy(RefundHash(s))
                      => /\ response.refundTransaction = RefundHash(s)
                         /\ ~response.refundFailed
                 /\ ~Truthy(RefundHash(s))
                      => /\ response.refundFailed
                         /\ response.refundTransaction = Undefined
         /\ Truthy(response.refundTransaction) => s.refund[1].ok

C23_Witness ==
  \E r \in RequestIds :
    /\ req[r].pc = "done" /\ req[r].result = "response"
    /\ FinalContent(req[r].response[1])
    /\ req[r].response[1].refundTransaction = "0xRefundTx"
    /\ ~req[r].response[1].refundFailed

\* the payment-response header of a response, decoded as the content handler
\* decodes it
Decoded(response, key) == JSONField(atob(response.paymentResponse[1]), key)

HeaderSent(s) ==
  /\ s.pc = "done" /\ s.result = "response"
  /\ s.response[1].paymentResponse # <<>>

----------------------------------------------------------------------------
(* Concurrent requests: several requests are in flight at once, each        *)
(* suspended at its own await; the facilitator's and the refund endpoint's  *)
(* answers arrive in any order                                              *)

MaxConcurrent == 2

ConcurrentIds == 1..MaxConcurrent

\* paid requests for the same resource, with the proof in either form and
\* with or without a requested amount
ConcurrentRequests ==
  {[method |-> "GET", pathname |-> <<"api", "base", "paid-content">>,
    accept |-> <<"application/json">>, userAgent |-> <<"curl">>,
    paymentHeader |-> Header("json", p), body |-> b,
    origin |-> Undefined, accessControlRequestHeaders |-> Undefined] :
     p \in {Payload(<<Accepted("exact", "base")>>, Undefined, Undefined),
            Payload(<<>>, "exact", "base")},
     b \in {Body("none", FALSE, 0), Body("json", TRUE, 150 * Cent)}}

ConcurrentVerifyOutcomes ==
  {verify(FetchAnswer(200, b)) :
     b \in {<<[NoJson EXCEPT !.isValid = "true", !.payer = "0xPayerV"]>>,
            <<[NoJson EXCEPT !.isValid = "false",
                             !.invalidReason = "invalid_signature",
                             !.payer = "0xPayerV"]>>}}

ConcurrentSettleOutcomes ==
  {settle(FetchAnswer(200, b)) :
     b \in {<<[NoJson EXCEPT !.success = "true", !.transaction = "0xSettleTx",
                             !.network = "base", !.payer = p]>> :
              p \in {Undefined, "0xPayerS"}}
           \cup {<<[NoJson EXCEPT !.success = "false",
                                  !.errorReason = "insufficient_funds"]>>}}

ConcurrentRefundOutcomes ==
  {RefundOutcome(FALSE, FALSE, TRUE, "0xRefundTx"),
   RefundOutcome(FALSE, FALSE, FALSE, Undefined)}

\* what the call a request is suspended at may deliver
ConcurrentOutcomes(pc) ==
  CASE pc = "awaitSupported" -> SupportedOutcomes
    [] pc = "awaitVerify" -> ConcurrentVerifyOutcomes
    [] pc = "awaitSettle" -> ConcurrentSettleOutcomes
    [] pc = "awaitRefund" -> ConcurrentRefundOutcomes
    [] OTHER -> {}

\* the handler resumes after the call it awaited
Resume(s, outcome) ==
  CASE s.pc = "awaitSupported" -> AfterSupported(s, outcome)
    [] s.pc = "awaitVerify" -> AfterVerify(s, outcome)
    [] s.pc = "awaitSettle" -> AfterSettle(s, outcome)
    [] s.pc = "awaitRefund" -> AfterRefund(s, outcome)

ConcurrentReceive(r) ==
  /\ req[r].pc = "idle"
  /\ \E request \in ConcurrentRequests :
       req' = [req EXCEPT ![r] = Middleware([Idle EXCEPT !.request = request])]
  /\ UNCHANGED <<client, engine, endpoint, resolver, jwt>>

\* an awaited call of request r returns; the answer is kept beside the
\* request's state
ConcurrentReturns(r) ==
  /\ \E outcome \in ConcurrentOutcomes(req[r].pc) :
       req' = [req EXCEPT ![r] =
                 [Resume(req[r], outcome) EXCEPT
                    !.answers = Append(req[r].answers, outcome)]]
  /\ UNCHANGED <<client, engine, endpoint, resolver, jwt>>

ConcurrentInit ==
  /\ req = [r \in ConcurrentIds |-> Idle]
  /\ client = NoCall
  /\ engine = NoEngine
  /\ endpoint = NoPosts
  /\ resolver = NotResolved
  /\ jwt = NoJwt

ConcurrentNext ==
  \E r \in ConcurrentIds :
    \/ ConcurrentReceive(r)
    \/ ConcurrentReturns(r)

ConcurrentSpec == ConcurrentInit /\ [][ConcurrentNext]_vars

\* the request run alone: the handler is given the same request and the
\* same answers, one after the other
RECURSIVE Replay(_, _, _)
Replay(s, answers, k) ==
  IF k > Len(answers) THEN s
  ELSE Replay(Resume(s, answers[k]), answers, k + 1)

RunAlone(request, answers) ==
  Replay(Middleware([Idle EXCEPT !.request = request]), answers, 1)

\* the payload, the requirement and the payer that are the request's own
OwnPayload(s) == decodePayment(s.request.paymentHeader).value[1]

OwnRequirement(s) ==
  findMatchingPaymentRequirements(
    RunAlone(s.request, <<>>).paymentRequirements, OwnPayload(s))[1]

OwnPayer(s) ==
  OrElse(s.answers[2].value.payer, OrElse(s.answers[1].value.payer, ""))

CarriesOwn(s, call) ==
  CASE call.op = "verify" -> call.args = <<OwnPayload(s), OwnRequirement(s)>>
    [] call.op = "settle" -> call.args = <<OwnPayload(s), OwnRequirement(s)>>
    [] call.op = "refund" ->
         call.args = <<[recipient |-> OwnPayer(s),
                        selectedPaymentRequirements |-> OwnRequirement(s)]>>
    [] OTHER -> TRUE

----------------------------------------------------------------------------
(* CORS: requests of browsers on other origins, through middleware() *)

Origins ==
  {Undefined, "", "https://app.example", "https://shop.example",
   "https://evil.example", "https://app.example.evil.example"}

CorsRequests ==
  [method : {"GET", "POST", "OPTIONS"},
   pathname : {<<"api", "base", "paid-content">>,
               <<"api", "solana", "paid-content">>, <<"health">>},
   accept : {<<"application/json">>, <<"text/html", "*/*">>},
   userAgent : {<<"Mozilla", "Chrome">>},
   paymentHeader :
     {Header("absent", NoPayload), Header("notJson", NoPayload),
      Header("json", Payload(<<Accepted("exact", "base")>>, Undefined,
                             Undefined))},
   body : {Body("none", FALSE, 0)},
   origin : Origins,
   accessControlRequestHeaders : {Undefined, "X-PAYMENT, X-Custom"}]

CorsReceive(r) ==
  /\ req[r].pc = "idle"
  /\ \E request \in CorsRequests :
       req' = [req EXCEPT ![r] = Middleware([Idle EXCEPT !.request = request])]
  /\ UNCHANGED <<client, engine, endpoint, resolver, jwt>>

CorsNext ==
  \E r \in RequestIds :
    \/ CorsReceive(r)
    \/ ConcurrentReturns(r)

CorsSpec == Init /\ [][CorsNext]_vars

\* the request's Origin is one of the configured origins
OriginListed(request) ==
  \E k \in 1..Len(allowedCorsOrigins) : allowedCorsOrigins[k] = request.origin

Returned(s) == s.pc = "done" /\ s.result = "response"

\* C28: in every response wrapped by the middleware,
\* Access-Control-Allow-Origin is present only when the request's Origin is
\* in the configured allow-list, and then equals that Origin;
\* Access-Control-Allow-Credentials is present only when
\* Access-Control-Allow-Origin is.
C28_OnlyListedOriginsAreReflected ==
  \A r \in RequestIds :
    LET s == req[r] IN
    Returned(s)
      => /\ s.cors # <<>>
         /\ s.cors[1].allowOrigin # Undefined
              => /\ OriginListed(s.request)
                 /\ s.cors[1].allowOrigin = s.request.origin
         /\ s.cors[1].allowCredentials # Undefined
              => s.cors[1].allowOrigin # Undefined

C28_Witness ==
  \E r \in RequestIds :
    /\ Returned(req[r])
    /\ req[r].settlement # <<>>
    /\ req[r].request.origin = "https://shop.example"
    /\ req[r].cors[1].allowOrigin = "https://shop.example"
    /\ req[r].cors[1].allowCredentials = "true"

\* the CORS header set of a request, header by header
IsCorsHeaderSet(cors, request) ==
  /\ cors.allowOrigin =
       (IF OriginListed(request) THEN request.origin ELSE Undefined)
  /\ cors.vary = (IF OriginListed(request) THEN "Origin" ELSE Undefined)
  /\ cors.allowCredentials =
       (IF OriginListed(request) THEN "true" ELSE Undefined)
  /\ cors.allowHeaders =
       (IF request.accessControlRequestHeaders \in {Undefined, ""}
        THEN "Content-Type, Authorization, X-PAYMENT, X-PAYMENT-RESPONSE"
        ELSE request.accessControlRequestHeaders)
  /\ cors.allowMethods = "GET,POST,PUT,PATCH,DELETE,OPTIONS"
  /\ cors.maxAge = "600"
  /\ cors.exposeHeaders = "X-PAYMENT-RESPONSE"

\* C29: an OPTIONS request to any path, protected or not, with or without a
\* proof header, is answered 204 with the CORS header set, without route
\* matching, requirement building, verify, settle or refund; every response
\* the middleware returns for another method carries the same header set.
C29_PreflightShortCircuits ==
  \A r \in RequestIds :
    LET s == req[r] IN
    /\ s.pc # "idle" /\ s.request.method = "OPTIONS"
         => /\ Returned(s)
            /\ s.response[1].status = 204
            /\ s.response[1].kind = "preflight"
            /\ ~s.routeMatched
            /\ s.paymentRequirements = <<>>
            /\ s.calls = <<>>
    /\ Returned(s)
         => /\ s.cors # <<>>
            /\ IsCorsHeaderSet(s.cors[1], s.request)

C29_Witness ==
  \E r \in RequestIds :
    /\ Returned(req[r])
    /\ req[r].request.method = "OPTIONS"
    /\ req[r].request.pathname = <<"api", "base", "paid-content">>
    /\ req[r].request.paymentHeader.kind = "json"
    /\ req[r].request.origin = "https://app.example"
    /\ req[r].response[1].status = 204

----------------------------------------------------------------------------
(* Price Resolver on its own *)

\* "$0", "$0.004", "$0.006", "$0.01", "$0.015", "$1", "$1.50", "$5" and
\* prices with a seventh decimal: "$0.0000004", "$0.0000005", "$0.0000014",
\* "$0.0000015", "$0.0000016", "$0.0001245", "$0.0002445", "$0.0100009"
PriceUnits ==
  {0, 4 * Pow10(PriceScale - 3), 6 * Pow10(PriceScale - 3), Cent,
   15 * Pow10(PriceScale - 3), 100 * Cent, 150 * Cent, 500 * Cent}
  \cup {u * Pow10(PriceScale - 7) :
          u \in {4, 5, 14, 15, 16, 1245, 2445, 100009}}

Prices ==
  {UsdPrice(u) : u \in PriceUnits}
  \cup {TextPrice(t) : t \in {"free", "$", "", "ten dollars"}}
  \cup {NaNPrice}
  \cup {TokenPrice("1000", Addr("0xToken", TRUE))}

\* the networks of the registry and two that have no stablecoin configured
PriceNetworks ==
  SupportedEVMNetworks \cup SupportedSVMNetworks \cup {"bitcoin", "ethereum"}

Resolve ==
  /\ \E price \in Prices, network \in PriceNetworks :
       resolver' = [called |-> TRUE, price |-> price, network |-> network,
                    result |-> processPriceToAtomicAmount(price, network)]
  /\ UNCHANGED <<req, client, engine, endpoint, jwt>>

PriceNext == Resolve

PriceSpec == Init /\ [][PriceNext]_vars

\* the price is a string that is not parseable as a number
Unparseable(price) == price.kind = "text"

NoStablecoin(network) == network \notin DOMAIN USDC_ADDRESSES

\* C30: the Price Resolver returns an {error} value, and never an amount,
\* when the price string is not parseable as a number or when the network
\* has no configured stablecoin; no amount it returns is non-numeric.
C30_UnparseablePriceIsAnError ==
  resolver.called
    => /\ resolver.price.kind # "token"
          /\ \/ Unparseable(resolver.price)
             \/ NoStablecoin(resolver.network)
            => resolver.result.error # Undefined
       /\ resolver.result.error = Undefined => ~resolver.result.notANumber

\* one atomic unit of the network's stablecoin in units of 10^-PriceScale
\* dollars
AtomicUnit(network) == Pow10(PriceScale - USDC_ADDRESSES[network].decimals)

\* C31: for a USD price and a network with a configured stablecoin the
\* resolver returns the atomic amount nearest to the price, at most half an
\* atomic unit away from it and never the price cut off ("$0.01" at six
\* decimals gives 10000); a token amount given outright is returned with
\* its amount and asset unchanged.
C31_UsdPriceIsRoundedToTheNearestUnit ==
  resolver.called
    => /\ resolver.price.kind = "usd" /\ ~NoStablecoin(resolver.network)
            => LET unit == AtomicUnit(resolver.network)
                   units == resolver.price.units
                   amount == resolver.result.amount IN
               /\ resolver.result.error = Undefined
               /\ ~resolver.result.notANumber
               /\ 2 * (amount * unit - units) <= unit
               /\ 2 * (units - amount * unit) <= unit
               /\ units = Cent
                    => amount
                         = Pow10(USDC_ADDRESSES[resolver.network].decimals - 2)
               /\ resolver.result.asset
                    = USDC_ADDRESSES[resolver.network].address
       /\ resolver.price.kind = "token"
            => /\ resolver.result.error = Undefined
               /\ resolver.result.amount = resolver.price.amount
               /\ resolver.result.asset = resolver.price.asset

\* "$0.0000016" on base resolves to 2 atomic units, the nearest, and not to
\* the 1 that cutting off would give
C31_Witness ==
  /\ resolver.called
  /\ resolver.price = UsdPrice(16 * Pow10(PriceScale - 7))
  /\ resolver.network = "base"
  /\ resolver.result.amount = 2

----------------------------------------------------------------------------
(* Content negotiation at both ends of the pipeline *)

\* the answer the gate gives the same request when it carries no proof, from
\* the requirements built for it
AnswerWithoutProof(s) ==
  CheckProof([s EXCEPT !.request.paymentHeader = Header("absent", NoPayload)])
    .response[1]

IsPaywall(response) ==
  response.status = 402
    /\ response.kind \in {"paywallHtml", "solanaPaywallHtml"}

\* C32: the client is classified alike at both ends of the pipeline: a
\* request that is answered with the HTML paywall when it carries no proof is
\* answered with the HTML success page after a successful payment, and a
\* request that gets the JSON 402 body gets the JSON success body.
C32_FinalRenderMirrorsThePaywall ==
  \A r \in RequestIds :
    LET s == req[r] IN
    s.pc = "done" /\ s.result = "response" /\ FinalContent(s.response[1])
      => (s.response[1].kind = "contentHtml"
            <=> IsPaywall(AnswerWithoutProof(s)))

----------------------------------------------------------------------------
(* extractErrorMessage on its own, on bodies that hold several fields *)

\* a body the facilitator answers that is no JSON, or an object in which
\* each of the six fields is absent or a string; error may be the empty string
ReasonBodies ==
  {<<>>}
  \cup {<<[NoJson EXCEPT !.error = e, !.invalidReason = ir,
                         !.invalidMessage = im, !.errorReason = er,
                         !.errorMessage = em, !.message = m]>> :
          e \in {Undefined, "", "rate limited"},
          ir \in {Undefined, "invalid_payload"},
          im \in {Undefined, "bad nonce"},
          er \in {Undefined, "insufficient_funds"},
          em \in {Undefined, "balance 0"},
          m \in {Undefined, "down"}}

Fallbacks == {HttpFallback("verify", 500), HttpFallback("settle", 402)}

Extract ==
  /\ \E data \in ReasonBodies, fallback \in Fallbacks :
       client' = ClientCall("extractErrorMessage",
                            [data |-> data, fallback |-> fallback],
                            extractErrorMessage(data, fallback))
  /\ UNCHANGED <<req, engine, endpoint, resolver, jwt>>

ReasonNext == Extract

ReasonSpec == Init /\ [][ReasonNext]_vars

\* the fields that name a reason, highest priority first, and the field
\* that details each
ReasonFields == <<"error", "invalidReason", "errorReason", "message">>

DetailOf(field) ==
  CASE field = "invalidReason" -> <<"invalidMessage">>
    [] field = "errorReason" -> <<"errorMessage">>
    [] OTHER -> <<>>

\* C33: the reason extracted from an error body is that of the first field
\* present among error, invalidReason, errorReason, message, in this order,
\* whatever other fields the body holds; invalidReason and errorReason are
\* followed by ": " and their message when it is present; a body with none
\* of the fields, or no body, gives the fallback.
C33_ReasonFollowsTheFixedPriority ==
  client.op = "extractErrorMessage"
    => LET data == client.answer.data
           present == IF data = <<>> THEN {}
                      ELSE {i \in 1..Len(ReasonFields) :
                              Truthy(data[1][ReasonFields[i]])}
       IN
       IF present = {}
       THEN client.outcome = client.answer.fallback
       ELSE LET first == CHOOSE i \in present : \A j \in present : i <= j
                field == ReasonFields[first]
                detail == DetailOf(field)
            IN
            IF detail # <<>> /\ Truthy(data[1][detail[1]])
            THEN client.outcome
                   = data[1][field] \o ": " \o data[1][detail[1]]
            ELSE client.outcome = data[1][field]

\* a body holding invalidReason, errorReason with its message, and message:
\* the reason is the invalidReason alone
C33_Witness ==
  /\ client.op = "extractErrorMessage"
  /\ client.answer.data
       = <<[NoJson EXCEPT !.invalidReason = "invalid_payload",
                          !.errorReason = "insufficient_funds",
                          !.errorMessage = "balance 0",
                          !.message = "down"]>>
  /\ client.outcome = "invalid_payload"

----------------------------------------------------------------------------
(* Settlement without a payer *)

\* settlement succeeded and neither response names a payer
SettledWithoutPayer(s) ==
  /\ SettledOk(s)
  /\ ~Truthy(s.settlement[1].payer)
  /\ ~Truthy(s.verification[1].payer)

\* C34: when settlement succeeds and neither the settlement nor the
\* verification response carries a payer, the gate makes no refund
\* sub-request and returns the pass-through response with the
\* payment-response header set, its payer the empty string; a refund
\* sub-request is made only for a non-empty payer.
C34_NoPayerNoRefund ==
  \A r \in RequestIds :
    LET s == req[r] IN
    /\ SettledWithoutPayer(s)
         => /\ s.pc = "done" /\ s.result = "response"
            /\ CallCount(s, "refund") = 0
            /\ s.refund = <<>>
            /\ s.response[1].status = 200
            /\ s.response[1].kind = "next"
            /\ s.response[1].content = <<>>
            /\ s.response[1].paymentResponse # <<>>
            /\ Decoded(s.response[1], "payer") = ""
    /\ \A i \in 1..Len(s.calls) :
         s.calls[i].op = "refund"
           => /\ SettledOk(s)
              /\ s.calls[i].args[1].recipient # ""
              /\ s.calls[i].args[1].recipient # Undefined
              /\ s.calls[i].args[1].recipient
                   \in {s.settlement[1].payer, s.verification[1].payer}

\* a settlement that names the empty payer after a verification that names
\* none: the request is passed through with the header
C34_Witness ==
  \E r \in RequestIds :
    /\ SettledWithoutPayer(req[r])
    /\ req[r].settlement[1].payer = ""
    /\ req[r].pc = "done"
    /\ req[r].response[1].kind = "next"
    /\ Decoded(req[r].response[1], "transaction") = "0xSettleTx"

----------------------------------------------------------------------------
(* The JWT cache of the facilitator client (lib/x402-helpers): jwtCache is  *)
(* one variable of the module, read and written by every getOrGenerateJwt   *)
(* call; a call is suspended while its token is signed                      *)

\* bound: the clock of the model, in seconds
MaxClock == 120

\* bound: the calls of getOrGenerateJwt in one behaviour
MaxCalls == 2

bufferSeconds == 30

DefaultExpiresIn == 120

JwtIds == {1, 2}

\* PayAIJwtOptions: two key pairs, and a key id with a secret that is no
\* Ed25519 key; expiresIn absent, or 60 seconds with the second pair
Credentials ==
  {[apiKeyId |-> "keyA", apiKeySecret |-> "secretA"],
   [apiKeyId |-> "keyB", apiKeySecret |-> "secretB"],
   [apiKeyId |-> "keyA", apiKeySecret |-> "not a key"]}

JwtOptions ==
  {[apiKeyId |-> c.apiKeyId, apiKeySecret |-> c.apiKeySecret,
    expiresIn |-> <<>>] : c \in Credentials}
  \cup {[apiKeyId |-> "keyB", apiKeySecret |-> "secretB",
         expiresIn |-> <<60>>]}

\* options.expiresIn ?? 120, and the default of the destructuring in
\* generatePayAIApiKeyJwt
ExpiresIn(options) ==
  IF options.expiresIn = <<>> THEN DefaultExpiresIn ELSE options.expiresIn[1]

\* generatePayAIApiKeyJwt: the token signed for the options at the second
\* now; jti is a fresh UUID, told by the serial number of the signing; the
\* key that signed stands for the signature
generatePayAIApiKeyJwt(options, now, serial) ==
  IF options.apiKeySecret = "not a key"
  THEN [threw |-> TRUE, token |-> <<>>]
  ELSE [threw |-> FALSE,
        token |-> <<[kid |-> options.apiKeyId, sub |-> options.apiKeyId,
                     iat |-> now, exp |-> now + ExpiresIn(options),
                     jti |-> serial,
                     signedWith |-> options.apiKeySecret]>>]

CachedJwt(token, expiresAt) == [token |-> token, expiresAt |-> expiresAt]

\* a call of getOrGenerateJwt: the options, the clock and the cache it read
\* when it began, whether clearJwtCache was the last thing to touch the
\* cache before it, and what it returned; what it wrote to the cache is
\* noted when it has signed
JwtTask(pc, options, start, seen, afterClear, fromCache, result, token) ==
  [pc |-> pc, options |-> options, start |-> start, seen |-> seen,
   afterClear |-> afterClear, fromCache |-> fromCache, result |-> result,
   token |-> token, wrote |-> <<>>]

JwtIdle == [pc |-> "idle"]

JwtModule(now, cache, cleared, calls, signed, tasks) ==
  [started |-> TRUE, now |-> now, cache |-> cache, cleared |-> cleared,
   calls |-> calls, signed |-> signed, tasks |-> tasks]

\* mutant: a token is served until its last 30 seconds begin
CacheValidInclusive(cache, now) ==
  cache # <<>> /\ cache[1].expiresAt >= now + bufferSeconds

\* part_000 210: jwtCache && jwtCache.expiresAt > now + bufferSeconds
CacheValid(cache, now) ==
  cache # <<>> /\ cache[1].expiresAt > now + bufferSeconds

\* getOrGenerateJwt to its return or to the await of the signing
getOrGenerateJwt(j, i, options) ==
  LET now == j.now IN
  IF CacheValid(j.cache, now)
  THEN [j EXCEPT !.calls = @ + 1, !.cleared = FALSE,
                 !.tasks[i] =
                   JwtTask("done", options, now, j.cache, j.cleared, TRUE,
                           "returned", <<j.cache[1].token>>)]
  ELSE [j EXCEPT !.calls = @ + 1, !.cleared = FALSE,
                 !.tasks[i] =
                   JwtTask("signing", options, now, j.cache, j.cleared, FALSE,
                           "pending", <<>>)]

\* getOrGenerateJwt from the return of generatePayAIApiKeyJwt: the token is
\* cached with the expiry counted from the call's own now, and returned; a
\* signing that throws leaves the cache as it is
AfterGenerate(j, i) ==
  LET task == j.tasks[i]
      signed == generatePayAIApiKeyJwt(task.options, task.start, j.signed + 1)
      entry == CachedJwt(signed.token[1],
                         task.start + ExpiresIn(task.options))
  IN
  IF signed.threw
  THEN [j EXCEPT !.tasks[i].pc = "done", !.tasks[i].result = "threw"]
  ELSE [j EXCEPT !.signed = @ + 1, !.cache = <<entry>>,
                 !.tasks[i].pc = "done", !.tasks[i].result = "returned",
                 !.tasks[i].token = signed.token,
                 !.tasks[i].wrote = <<entry>>]

\* clearJwtCache
clearJwtCache(j) == [j EXCEPT !.cache = <<>>, !.cleared = TRUE]

JwtCall(i) ==
  /\ jwt.tasks[i].pc \in {"idle", "done"}
  /\ jwt.calls < MaxCalls
  /\ \E options \in JwtOptions : jwt' = getOrGenerateJwt(jwt, i, options)
  /\ UNCHANGED <<req, client, engine, endpoint, resolver>>

JwtSignReturns(i) ==
  /\ jwt.tasks[i].pc = "signing"
  /\ jwt' = AfterGenerate(jwt, i)
  /\ UNCHANGED <<req, client, engine, endpoint, resolver>>

JwtClear ==
  /\ ~jwt.cleared
  /\ jwt' = clearJwtCache(jwt)
  /\ UNCHANGED <<req, client, engine, endpoint, resolver>>

\* Date.now() moves on, by steps that let the clock stand at the edge of the
\* last 30 seconds of a token and at either side of it
Tick ==
  /\ \E d \in {30, 45} :
       /\ jwt.now + d <= MaxClock
       /\ jwt' = [jwt EXCEPT !.now = @ + d]
  /\ UNCHANGED <<req, client, engine, endpoint, resolver>>

JwtInit ==
  /\ req = [r \in RequestIds |-> Idle]
  /\ client = NoCall
  /\ engine = NoEngine
  /\ endpoint = NoPosts
  /\ resolver = NotResolved
  /\ jwt = JwtModule(0, <<>>, FALSE, 0, 0, [i \in JwtIds |-> JwtIdle])

JwtNext ==
  \/ \E i \in JwtIds : JwtCall(i) \/ JwtSignReturns(i)
  \/ JwtClear
  \/ Tick

JwtSpec == JwtInit /\ [][JwtNext]_vars

\* the calls of getOrGenerateJwt that have begun
JwtCalls == {i \in JwtIds : jwt.tasks[i].pc # "idle"}

\* C35: getOrGenerateJwt returns the cached token without signing exactly
\* when a cached token exists whose recorded expiry is more than 30 seconds
\* after now; otherwise it signs a new token and replaces the cache entry
\* with it; after clearJwtCache the next call always signs a new token; a
\* token served from the cache has more than 30 seconds of validity left.
C35_CacheServesOnlyFreshTokens ==
  \A i \in JwtCalls :
    LET task == jwt.tasks[i] IN
    /\ task.fromCache
         <=> /\ task.seen # <<>>
             /\ task.seen[1].expiresAt > task.start + bufferSeconds
    /\ task.fromCache
         => /\ task.pc = "done" /\ task.result = "returned"
            /\ task.token = <<task.seen[1].token>>
            /\ task.wrote = <<>>
            /\ task.token[1].exp > task.start + bufferSeconds
    /\ ~task.fromCache /\ task.result = "returned"
         => /\ task.token[1].iat = task.start
            /\ task.seen # <<>> => task.token[1] # task.seen[1].token
            /\ task.wrote
                 = <<CachedJwt(task.token[1],
                               task.start + ExpiresIn(task.options))>>
    /\ task.afterClear => ~task.fromCache

\* C40: the token a call of getOrGenerateJwt returns is one generated from
\* the credentials of that call: over any sequence of calls with different
\* (apiKeyId, apiKeySecret) pairs, a token generated for one pair is never
\* returned to a call made with another pair.
C40_TokenIsOfTheCallersCredentials ==
  \A i \in JwtCalls :
    LET task == jwt.tasks[i] IN
    task.result = "returned"
      => /\ task.token[1].kid = task.options.apiKeyId
         /\ task.token[1].sub = task.options.apiKeyId
         /\ task.token[1].signedWith = task.options.apiKeySecret

----------------------------------------------------------------------------
(* The payment-response header and the settlement *)

\* C36: whenever settlement has succeeded for a request, the response
\* returned to the client carries the payment-response header, whose decoded
\* transaction is that settlement's transaction, on the refund-ok,
\* refund-failed and no-payer paths alike; no response carries the header
\* unless settle returned success for the same request.
C36_SettledResponseCarriesTheHeader ==
  \A r \in RequestIds :
    LET s == req[r] IN
    Served(s)
      => /\ SettledOk(s)
              => /\ s.result = "response"
                 /\ s.response[1].paymentResponse # <<>>
                 /\ Decoded(s.response[1], "transaction")
                      = s.settlement[1].transaction
         /\ s.result = "response" /\ s.response[1].paymentResponse # <<>>
              => /\ SettledOk(s)
                 /\ CallCount(s, "settle") = 1

----------------------------------------------------------------------------
(* The requirement and the recipient of a request *)

\* the request as the gate sees it before it looks at the proof: the same
\* request without the X-PAYMENT header, to its first return or await
BeforeProof(s) ==
  LET bare == [Idle EXCEPT
                 !.entry = s.entry,
                 !.request = [s.request EXCEPT
                                !.paymentHeader = Header("absent", NoPayload)]]
  IN IF s.entry = "middleware" THEN Middleware(bare)
     ELSE PaymentMiddleware(bare, payToEVM, CustomRoutes)

RequirementOf(call) ==
  IF call.op = "refund" THEN call.args[1].selectedPaymentRequirements
  ELSE call.args[2]

\* C37: within a request the same selected requirement, a member of the
\* requirement set built for this request, is passed to verify, to settle
\* and in the body of the refund sub-request; the refund recipient is the
\* settlement response's payer when present, otherwise the verification
\* response's payer; the amount, asset and payTo of the requirement are
\* those the gate derives from the request without its proof.
C37_OneRequirementAndTheFacilitatorsPayer ==
  \A r \in RequestIds :
    LET s == req[r] IN
    \A k \in 1..Len(s.calls) :
      LET call == s.calls[k] IN
      call.op \in {"verify", "settle", "refund"}
        => /\ s.selectedPaymentRequirements # <<>>
           /\ RequirementOf(call) = s.selectedPaymentRequirements[1]
           /\ \E n \in 1..Len(s.paymentRequirements) :
                s.paymentRequirements[n] = RequirementOf(call)
           /\ RequirementOf(call).maxAmountRequired
                = BeforeProof(s).maxAmountRequired
           /\ RequirementOf(call).asset.text = BeforeProof(s).asset.text
           /\ RequirementOf(call).payTo.text = BeforeProof(s).payTo.text
           /\ call.op # "refund" => call.args[1] = s.decodedPayment[1]
           /\ call.op = "refund"
                => /\ Truthy(s.settlement[1].payer)
                        => call.args[1].recipient = s.settlement[1].payer
                   /\ ~Truthy(s.settlement[1].payer)
                        => call.args[1].recipient = s.verification[1].payer

\* a request whose payload names what it accepted, settled by a response
\* without a payer: verify, settle and the refund carry the one requirement
\* and the refund goes to the payer the verification named
C37_Witness ==
  \E r \in RequestIds :
    LET s == req[r] IN
    /\ Served(s)
    /\ \A op \in {"verify", "settle", "refund"} : CallCount(s, op) = 1
    /\ s.decodedPayment[1].accepted # <<>>
    /\ ~Truthy(s.settlement[1].payer)
    /\ CallsOf(s, "refund")[1].args[1].recipient = "0xPayerV"

----------------------------------------------------------------------------
(* Termination: every call the gate awaits returns or throws *)

\* an awaited call that can return does return; no request has to arrive,
\* and the route handler behind a pass-through is the framework's
Returns(r) ==
  \/ SupportedReturns(r)
  \/ VerifyReturns(r)
  \/ SettleReturns(r)
  \/ RefundReturns(r)

\* requests of every kind the gate tells apart: each route and method, a
\* browser and a client that is none, no proof, a proof that does not decode,
\* one that matches the route and one that does not, and each kind of body
LiveRequests ==
  [method : {"GET", "OPTIONS"}, pathname : Pathnames,
   accept : {<<"text/html", "*/*">>}, userAgent : {<<"curl">>, <<"Mozilla", "Chrome">>},
   paymentHeader :
     {Header("absent", NoPayload), Header("notJson", NoPayload),
      Header("json", Payload(<<Accepted("exact", "base")>>, Undefined, Undefined)),
      Header("json", Payload(<<>>, "exact", "solana")),
      Header("json", Payload(<<>>, "upto", "base"))},
   body : {Body("none", FALSE, 0), Body("null", FALSE, 0),
           Body("json", TRUE, 150 * Cent)},
   origin : {Undefined}, accessControlRequestHeaders : {Undefined}]

\* a paymentMiddleware instance whose route is configured with a price that
\* is no number
MispricedRoutes ==
  <<RouteEntry(<<>>, <<"api", "base", "paid-content">>,
               [RouteConfigOf("base") EXCEPT !.price = NaNPrice])>>

LiveReceive(r) ==
  /\ req[r].pc = "idle"
  /\ \E request \in LiveRequests, entry \in Entries,
        routes \in {CustomRoutes, MispricedRoutes} :
       LET s == [Idle EXCEPT !.request = request, !.entry = entry] IN
       req' = [req EXCEPT ![r] =
                 IF entry = "middleware" THEN Middleware(s)
                 ELSE PaymentMiddleware(s, payToEVM, routes)]
  /\ UNCHANGED <<client, engine, endpoint, resolver, jwt>>

LiveNext ==
  \E r \in RequestIds :
    \/ LiveReceive(r)
    \/ Returns(r)
    \/ RouteHandlerRuns(r)

LiveSpec ==
  Init /\ [][LiveNext]_vars /\ \A r \in RequestIds : WF_vars(Returns(r))

\* the outcomes a request ends in: pass-through, 204, 402, 500, 200 with
\* content, or a raised exception
TerminalOutcome(s) ==
  \/ s.result = "exception" /\ s.response = <<>>
  \/ /\ s.result = "response"
     /\ s.exception = Undefined
     /\ \/ s.response[1].status = 200 /\ s.response[1].kind = "next"
        \/ s.response[1].status = 204
        \/ s.response[1].status = 402
        \/ s.response[1].status = 500
        \/ s.response[1].status = 200 /\ FinalContent(s.response[1])

\* C38: when every external call returns or throws, every request that
\* enters the middleware eventually reaches a terminal outcome, which is one
\* of pass-through, 204, 402, 500, 200 with content or a raised exception;
\* the outcome stays what it is and no external call is made after it.
C38_EveryRequestTerminatesOnce ==
  /\ \A r \in RequestIds : (req[r].pc # "idle") ~> (req[r].pc = "done")
  /\ [](\A r \in RequestIds : req[r].pc = "done" => TerminalOutcome(req[r]))
  /\ [][\A r \in RequestIds :
          req[r].pc = "done"
            => /\ req'[r].pc = "done"
               /\ req'[r].calls = req[r].calls
               /\ req'[r].result = req[r].result
               /\ req'[r].response = req[r].response
               /\ req'[r].exception = req[r].exception]_vars

\* a request that went through verify, settle and a refund that failed, and
\* ended with the content
C38_Witness ==
  \E r \in RequestIds :
    /\ req[r].pc = "done"
    /\ \A op \in {"verify", "settle", "refund"} : CallCount(req[r], op) = 1
    /\ ~req[r].refund[1].ok
    /\ FinalContent(req[r].response[1])

----------------------------------------------------------------------------
(* The price a protected route charges *)

\* the body is JSON and holds an amount that is a number greater than zero
AmountRequested(body) ==
  body.kind = "json" /\ body.amountIsNumber /\ body.amount > 0

\* C39: the price a protected route charges is the route's default price
\* unless the request has a JSON body whose amount is a number greater than
\* zero, in which case it is that amount rendered with two decimals; in
\* every case the atomic amount placed in the payment requirements is
\* strictly positive.
C39_ChargedAmountIsPositive ==
  \A r \in RequestIds :
    LET s == req[r] IN
    s.entry = "middleware" /\ s.routeMatched
      => /\ s.price = IF AmountRequested(s.request.body)
                      THEN ToFixed2(s.request.body.amount)
                      ELSE DefaultPrice
         /\ \A n \in 1..Len(s.paymentRequirements) :
              s.paymentRequirements[n].maxAmountRequired > 0

====
